---------------------------- MODULE Spec2Model ----------------------------
(***************************************************************************)
(* Model of the content-acquisition functions of Image-Checker:            *)
(*   - fb-scrape        (src/unnamed/part_001, lines 71-285): the metadata *)
(*     handler, its candidate x identity fetch loop, safeFetch, the        *)
(*     login-interstitial test and the metadata extractor;                 *)
(*   - screenshot-post  (src/unnamed/part_000): the render handler, its    *)
(*     browser session, cookie preload, region detection and capture.      *)
(* JavaScript strings are TLA+ strings handled character by character;     *)
(* JavaScript values whose type matters are records tagged by field t.     *)
(***************************************************************************)
EXTENDS Integers, Sequences, FiniteSets, TLC

VARIABLES
    \* ---- fb-scrape handler (part_001) ----
    event,       \* the request: [httpMethod, body]
    spc,         \* position of the handler: start, awaitFetch, awaitText, done
    candidates,  \* const candidates = buildCandidateUrls(url)
    ci,          \* position of the outer loop (index into candidates)
    ui,          \* position of the inner loop (index into userAgents)
    tried,       \* const tried = []
    html,        \* let html = null ("" stands for null: both are falsy)
    finalUrl,    \* let finalUrl = null ("" stands for null)
    timerArmed,  \* safeFetch: the timeout set on line 182 is pending
    fres,        \* safeFetch: const res, the response whose body is awaited
    res,         \* handler: const res of the iteration the loop ended in
    attempts,    \* history: per attempt made, how its result is classified
    extractArgs, \* history: the arguments extractMeta was called with
    response,    \* what the handler returned
    \* ---- screenshot-post handler (part_000) ----
    rEvent,      \* the request and its environment
    rpc,         \* position of the handler
    url,         \* let url = ''
    cookies,     \* const cookies = parseCookies(getCookieInput(event))
    browser,     \* let browser = null: "null", "local" or "bundled"
    session,     \* the launched browser session: "none", "open", "closed"
    closeCalls,  \* history: number of browser.close() calls made
    page,        \* the page: [created, location, cookiesSet, intercept, dom]
    element,     \* candidate = await page.$(...)
    box,         \* const box = await element.boundingBox()
    clip,        \* let clip = null
    shot,        \* the arguments page.screenshot was called with
    trace,       \* history: the page operations invoked, in order
    rResponse,   \* what the handler returned
    \* ---- a single call of extractMeta or parseCookies ----
    fnPc,        \* "idle", "call" (about to be called) or "done"
    fnArg,       \* the arguments of the call
    fnOut        \* what the call returned

scrapeVars == <<event, spc, candidates, ci, ui, tried, html, finalUrl,
                timerArmed, fres, res, attempts, extractArgs, response>>
renderVars == <<rEvent, rpc, url, cookies, browser, session, closeCalls,
                page, element, box, clip, shot, trace, rResponse>>
pureVars == <<fnPc, fnArg, fnOut>>
vars == <<scrapeVars, renderVars, pureVars>>

-----------------------------------------------------------------------------
(* JavaScript values *)

Undefined == [t |-> "undefined"]
Null == [t |-> "null"]
Str(s) == [t |-> "string", v |-> s]
Num(n) == [t |-> "number", v |-> n]
Bool(b) == [t |-> "boolean", v |-> b]
Arr(a) == [t |-> "array", v |-> a]
Obj(o) == [t |-> "object", v |-> o]

\* JavaScript truthiness (ToBoolean)
Truthy(x) ==
    CASE x.t = "undefined" -> FALSE
      [] x.t = "null" -> FALSE
      [] x.t = "string" -> x.v # ""
      [] x.t = "number" -> x.v # 0
      [] x.t = "boolean" -> x.v
      [] OTHER -> TRUE

\* a || b
Or(a, b) == IF Truthy(a) THEN a ELSE b

-----------------------------------------------------------------------------
(* Strings, character by character *)

Max(S) == CHOOSE m \in S : \A n \in S : n <= m
Min(S) == CHOOSE m \in S : \A n \in S : m <= n
MinOr(S, d) == IF S = {} THEN d ELSE Min(S)
MaxOr(S, d) == IF S = {} THEN d ELSE Max(S)

At(s, i) == SubSeq(s, i, i)
From(s, i) == SubSeq(s, i, Len(s))

UpperChars == "ABCDEFGHIJKLMNOPQRSTUVWXYZ"
LowerChars == "abcdefghijklmnopqrstuvwxyz"

LowerMap == [i \in 1..Len(UpperChars) |-> At(LowerChars, i)]
UpperSet == {At(UpperChars, i) : i \in 1..Len(UpperChars)}
UpperIndex == [c \in UpperSet |-> CHOOSE i \in 1..Len(UpperChars) : At(UpperChars, i) = c]

LowerChar(c) == IF c \in UpperSet THEN LowerMap[UpperIndex[c]] ELSE c

\* String.prototype.toLowerCase
RECURSIVE ToLowerCase(_)
ToLowerCase(s) ==
    IF Len(s) = 0 THEN ""
    ELSE IF Len(s) = 1 THEN LowerChar(s)
    ELSE ToLowerCase(SubSeq(s, 1, Len(s) \div 2)) \o ToLowerCase(From(s, Len(s) \div 2 + 1))

\* the characters \s matches, among those the inputs use
WhiteSpace == " \t\n"

InChars(c, chars) == \E i \in 1..Len(chars) : At(chars, i) = c

\* the positions of s holding a character of chars
Positions(s, chars) == {i \in 1..Len(s) : InChars(At(s, i), chars)}

\* String.prototype.indexOf, 1-based; 0 when absent
IndexOf(s, sub) ==
    MinOr({i \in 1..(Len(s) - Len(sub) + 1) : SubSeq(s, i, i + Len(sub) - 1) = sub}, 0)

\* String.prototype.includes, startsWith, endsWith
Includes(s, sub) == IndexOf(s, sub) # 0
StartsWith(s, pre) == Len(pre) <= Len(s) /\ SubSeq(s, 1, Len(pre)) = pre
EndsWith(s, suf) == Len(suf) <= Len(s) /\ From(s, Len(s) - Len(suf) + 1) = suf

\* a || b on strings
OrS(a, b) == IF a # "" THEN a ELSE b

-----------------------------------------------------------------------------
(* Regular expressions (flag i), as sequences of atoms:                    *)
(*   Lit(s)        the literal s                                           *)
(*   Cls(chars, neg, lo, hi, cap)  lo..hi characters (hi = -1: no limit)   *)
(*                 in (neg: not in) chars, greedy; cap: the capture group  *)
(*   Alt(alts)     the first of the literals alts with which the rest      *)
(*                 matches                                                 *)
(* No class of the patterns below holds a letter, so the flag i bears on   *)
(* the literals only: they are compared with the subject in lower case.    *)

Lit(s) == [a |-> "lit", s |-> ToLowerCase(s), chars |-> "", neg |-> FALSE,
           lo |-> 0, hi |-> 0, cap |-> FALSE, alts |-> <<>>]
Cls(chars, neg, lo, hi, cap) ==
    [a |-> "cls", s |-> "", chars |-> chars, neg |-> neg, lo |-> lo, hi |-> hi,
     cap |-> cap, alts |-> <<>>]
Alt(alts) == [a |-> "alt", s |-> "", chars |-> "", neg |-> FALSE,
              lo |-> 0, hi |-> 0, cap |-> FALSE,
              alts |-> [j \in 1..Len(alts) |-> ToLowerCase(alts[j])]]
WsStar == Cls(WhiteSpace, FALSE, 0, -1, FALSE)
WsPlus == Cls(WhiteSpace, FALSE, 1, -1, FALSE)

NoMatch == [ok |-> FALSE, start |-> 0, end |-> 0, cap |-> ""]

Capped(n, hi) == IF hi # -1 /\ n > hi THEN hi ELSE n

\* length of the longest run of characters of the class at position i
Run(s, i, atom) ==
    Capped(MinOr({j \in i..Len(s) : InChars(At(s, j), atom.chars) = atom.neg},
                 Len(s) + 1) - i,
           atom.hi)

\* of the tries <<j, match>>, the successful one with the largest (dir = 1)
\* or smallest (dir = -1) j
Best(tries, dir) ==
    CHOOSE t \in tries : t[2].ok /\ \A o \in tries : o[2].ok => dir * t[1] >= dir * o[1]

WithCap(m, isCap, text) == IF isCap THEN [m EXCEPT !.cap = text] ELSE m

PickClass(s, i, atom, tries) ==
    IF \A t \in tries : ~t[2].ok THEN NoMatch
    ELSE WithCap(Best(tries, 1)[2], atom.cap, SubSeq(s, i, i + Best(tries, 1)[1] - 1))

PickAlt(tries) ==
    IF \A t \in tries : ~t[2].ok THEN NoMatch ELSE Best(tries, -1)[2]

\* the backtracking match of pat[k..] at position i of s (ls: s in lower
\* case): a greedy class takes the longest run and gives back characters
\* until the rest matches
RECURSIVE MatchFrom(_, _, _, _, _)
MatchFrom(s, ls, i, pat, k) ==
    IF k > Len(pat) THEN [ok |-> TRUE, start |-> i, end |-> i, cap |-> ""]
    ELSE IF pat[k].a = "lit"
    THEN IF i + Len(pat[k].s) - 1 <= Len(s)
            /\ SubSeq(ls, i, i + Len(pat[k].s) - 1) = pat[k].s
         THEN MatchFrom(s, ls, i + Len(pat[k].s), pat, k + 1)
         ELSE NoMatch
    ELSE IF pat[k].a = "alt"
    THEN PickAlt({<<j, IF /\ i + Len(pat[k].alts[j]) - 1 <= Len(s)
                          /\ SubSeq(ls, i, i + Len(pat[k].alts[j]) - 1) = pat[k].alts[j]
                       THEN MatchFrom(s, ls, i + Len(pat[k].alts[j]), pat, k + 1)
                       ELSE NoMatch>> : j \in 1..Len(pat[k].alts)})
    ELSE PickClass(s, i, pat[k],
                   {<<j, MatchFrom(s, ls, i + j, pat, k + 1)>> :
                        j \in pat[k].lo..Run(s, i, pat[k])})

MatchAt(s, ls, pat, i) ==
    IF i = 0 THEN NoMatch ELSE [MatchFrom(s, ls, i, pat, 1) EXCEPT !.start = i]

\* the leftmost match of pat in s at or after position from
Find(s, ls, pat, from) ==
    MatchAt(s, ls, pat,
            MinOr({i \in from..(Len(s) + 1) : MatchFrom(s, ls, i, pat, 1).ok}, 0))

\* String.match and RegExp.exec from lastIndex on: [ok, start, end, cap],
\* end = the position after the match
ExecFrom(s, pat, from) == Find(s, ToLowerCase(s), pat, from)

\* RegExp.test
Test(s, pat) == ExecFrom(s, pat, 1).ok

-----------------------------------------------------------------------------
(* fb-scrape: the login-interstitial test *)

\* /See\s+posts,\s+photos\s+and\s+more\s+on\s+Facebook/i
SeePostsRe == <<Lit("See"), WsPlus, Lit("posts,"), WsPlus, Lit("photos"), WsPlus,
                Lit("and"), WsPlus, Lit("more"), WsPlus, Lit("on"), WsPlus,
                Lit("Facebook")>>
\* /Log\s*in\s*or\s*sign\s*up\s*to\s*view/i
LogInOrSignUpRe == <<Lit("Log"), WsStar, Lit("in"), WsStar, Lit("or"), WsStar,
                     Lit("sign"), WsStar, Lit("up"), WsStar, Lit("to"), WsStar,
                     Lit("view")>>
\* /Log\s*into\s*Facebook/i
LogIntoRe == <<Lit("Log"), WsStar, Lit("into"), WsStar, Lit("Facebook")>>

isFacebookLoginInterstitial(h) ==
    IF h = "" THEN FALSE
    ELSE IF Test(h, SeePostsRe) THEN TRUE
    ELSE IF Test(h, LogInOrSignUpRe) THEN TRUE
    ELSE IF Test(h, LogIntoRe) THEN TRUE
    ELSE FALSE

-----------------------------------------------------------------------------
(* new URL(input): the WHATWG parse of an absolute http(s) URL, for the    *)
(* inputs the model draws (no percent-encoding, no IPv6, no dot segments): *)
(* scheme://[userinfo@]hostname[:port][path][?query][#hash].               *)

DefaultPort(scheme) ==
    CASE scheme = "https" -> "443" [] scheme = "http" -> "80" [] OTHER -> ""

InvalidURL == [ok |-> FALSE, scheme |-> "", userinfo |-> "", port |-> "", path |-> "",
               href |-> "", origin |-> "", host |-> "", hostname |-> "",
               pathname |-> "", search |-> ""]

\* s up to (not including) the first character of chars
Before(s, chars) == SubSeq(s, 1, MinOr(Positions(s, chars), Len(s) + 1) - 1)
\* s from the first character of chars on
FromFirst(s, chars) == From(s, MinOr(Positions(s, chars), Len(s) + 1))
\* s after the last character of chars
AfterLast(s, chars) == From(s, MaxOr(Positions(s, chars), 0) + 1)
\* s up to (not including) the last character of chars; "" when there is none
BeforeLast(s, chars) == SubSeq(s, 1, MaxOr(Positions(s, chars), 0) - 1)

HostOf(hostname, port) == hostname \o (IF port = "" THEN "" ELSE ":" \o port)

MakeURL(scheme, userinfo, hostname, port, path) ==
    IF scheme \notin {"http", "https"} \/ hostname = ""
       \/ Positions(hostname, WhiteSpace) # {}
    THEN InvalidURL
    ELSE [ok |-> TRUE,
          scheme |-> scheme,
          userinfo |-> userinfo,
          port |-> port,
          path |-> path,
          href |-> scheme \o "://" \o (IF userinfo = "" THEN "" ELSE userinfo \o "@")
                   \o HostOf(hostname, port) \o path,
          origin |-> scheme \o "://" \o HostOf(hostname, port),
          host |-> HostOf(hostname, port),
          hostname |-> hostname,
          pathname |-> Before(path, "?#"),
          search |-> Before(FromFirst(path, "?"), "#")]

\* the port as serialized: the scheme's default port is dropped
PortOf(scheme, hostport) ==
    IF Positions(hostport, ":") = {} \/ AfterLast(hostport, ":") = DefaultPort(scheme)
    THEN "" ELSE AfterLast(hostport, ":")

\* an empty path, or one that starts with ? or #, is the path /
PathOf(rest) == IF rest = "" \/ At(rest, 1) # "/" THEN "/" \o rest ELSE rest

ParseAuthority(scheme, authority, rest) ==
    MakeURL(scheme, BeforeLast(authority, "@"),
            ToLowerCase(Before(AfterLast(authority, "@"), ":")),
            PortOf(scheme, AfterLast(authority, "@")),
            PathOf(rest))

ParseAfterScheme(scheme, after) ==
    ParseAuthority(scheme, Before(after, "/?#"), FromFirst(after, "/?#"))

NewURL(input) ==
    IF IndexOf(input, "://") <= 1 THEN InvalidURL
    ELSE ParseAfterScheme(ToLowerCase(SubSeq(input, 1, IndexOf(input, "://") - 1)),
                          From(input, IndexOf(input, "://") + 3))

-----------------------------------------------------------------------------
(* fb-scrape: the candidate generator *)

MobileHost == "m.facebook.com"
BasicHost == "mbasic.facebook.com"

\* Array.prototype.includes
SeqIncludes(seq, x) == \E i \in 1..Len(seq) : seq[i] = x

\* if (!hosts.includes(h)) hosts.push(h)
PushIfAbsent(hosts, h) == IF ~SeqIncludes(hosts, h) THEN Append(hosts, h) ELSE hosts

\* hosts.map(h => `https://${h}${paths}`)
CandidateList(hosts, paths) == [i \in 1..Len(hosts) |-> "https://" \o hosts[i] \o paths]

CandidatesOf(u) ==
    CandidateList(PushIfAbsent(PushIfAbsent(<<u.host>>, MobileHost), BasicHost),
                  SubSeq(u.href, Len(u.origin) + 1, Len(u.href)))

\* [threw, value]: threw when new URL(input) throws
BuildFrom(u) ==
    IF ~u.ok THEN [threw |-> TRUE, value |-> <<>>]
    ELSE [threw |-> FALSE, value |-> CandidatesOf(u)]

buildCandidateUrls(input) == BuildFrom(NewURL(input))

-----------------------------------------------------------------------------
(* new URL(rel, base).href, URLSearchParams.get and decodeURIComponent     *)

Href(u) == [ok |-> u.ok, href |-> u.href]

ResolveAgainst(rel, b) ==
    IF ~b.ok THEN [ok |-> FALSE, href |-> ""]
    ELSE IF StartsWith(rel, "//") THEN Href(NewURL(b.scheme \o ":" \o rel))
    ELSE IF StartsWith(rel, "/") THEN [ok |-> TRUE, href |-> b.origin \o rel]
    ELSE IF StartsWith(rel, "?") THEN [ok |-> TRUE, href |-> b.origin \o b.pathname \o rel]
    ELSE [ok |-> TRUE,
          href |-> b.origin \o SubSeq(b.pathname, 1, MaxOr(Positions(b.pathname, "/"), 0))
                   \o rel]

ResolveWith(rel, base, abs) ==
    IF abs.ok THEN Href(abs)
    ELSE IF StartsWith(ToLowerCase(rel), "data:") THEN [ok |-> TRUE, href |-> rel]
    ELSE ResolveAgainst(rel, NewURL(base))

\* [ok, href]: ok is FALSE when the constructor throws
Resolve(rel, base) == ResolveWith(rel, base, NewURL(rel))

\* the escapes the inputs use: <<code, character>>
Escapes == {<<"3a", ":">>, <<"2f", "/">>, <<"3f", "?">>, <<"3d", "=">>,
            <<"26", "&">>, <<"25", "%">>, <<"20", " ">>}

IsEscapeAt(s, i) ==
    /\ At(s, i) = "%"
    /\ i + 2 <= Len(s)
    /\ \E e \in Escapes : e[1] = ToLowerCase(SubSeq(s, i + 1, i + 2))

Unescape(s, i) ==
    (CHOOSE e \in Escapes : e[1] = ToLowerCase(SubSeq(s, i + 1, i + 2)))[2]

Prepend(prefix, r) == [threw |-> r.threw, value |-> prefix \o r.value]

\* decodeURIComponent: [threw, value]; threw on a % that starts no escape
RECURSIVE decodeURIComponent(_)
RECURSIVE DecodeAt(_, _)
decodeURIComponent(s) == DecodeAt(s, IndexOf(s, "%"))
DecodeAt(s, p) ==
    IF p = 0 THEN [threw |-> FALSE, value |-> s]
    ELSE IF IsEscapeAt(s, p)
    THEN Prepend(SubSeq(s, 1, p - 1) \o Unescape(s, p), decodeURIComponent(From(s, p + 3)))
    ELSE [threw |-> TRUE, value |-> ""]

\* the decoding URLSearchParams applies: + is a space, a stray % is kept
RECURSIVE FormDecode(_)
RECURSIVE FormDecodeAt(_, _)
FormDecode(s) == FormDecodeAt(s, MinOr(Positions(s, "%+"), 0))
FormDecodeAt(s, p) ==
    IF p = 0 THEN s
    ELSE IF IsEscapeAt(s, p)
    THEN SubSeq(s, 1, p - 1) \o Unescape(s, p) \o FormDecode(From(s, p + 3))
    ELSE SubSeq(s, 1, p - 1) \o (IF At(s, p) = "+" THEN " " ELSE "%")
         \o FormDecode(From(s, p + 1))

\* u.searchParams.get(name): [found, value] (found FALSE: null)
RECURSIVE ParamGet(_, _)
RECURSIVE ParamOf(_, _, _)
ParamGet(query, name) ==
    IF query = "" THEN [found |-> FALSE, value |-> ""]
    ELSE ParamOf(Before(query, "&"), From(query, Len(Before(query, "&")) + 2), name)
ParamOf(pair, more, name) ==
    IF pair # "" /\ FormDecode(Before(pair, "=")) = name
    THEN [found |-> TRUE, value |-> FormDecode(From(pair, Len(Before(pair, "=")) + 2))]
    ELSE ParamGet(more, name)

SearchParamsGet(search, name) ==
    ParamGet(IF StartsWith(search, "?") THEN From(search, 2) ELSE search, name)

-----------------------------------------------------------------------------
(* fb-scrape: the metadata extractor *)

\* String.prototype.replace with a global literal pattern
RECURSIVE ReplaceAll(_, _, _)
RECURSIVE ReplaceAt(_, _, _, _)
ReplaceAll(s, from, to) == ReplaceAt(s, from, to, IndexOf(s, from))
ReplaceAt(s, from, to, p) ==
    IF p = 0 THEN s
    ELSE SubSeq(s, 1, p - 1) \o to \o ReplaceAll(From(s, p + Len(from)), from, to)

decodeHtml(str) ==
    ReplaceAll(ReplaceAll(ReplaceAll(ReplaceAll(ReplaceAll(str,
        "&amp;", "&"), "&lt;", "<"), "&gt;", ">"), "&quot;", "\""), "&#39;", "'")

Quote == Cls("\"'", FALSE, 1, 1, FALSE)

\* /<meta\s+ATTR=["']KEY["']\s+content=["']([^"']*)["'][^>]*>/i
MetaRe(attr, key) ==
    <<Lit("<meta"), WsPlus, Lit(attr \o "="), Quote, Lit(key), Quote, WsPlus,
      Lit("content="), Quote, Cls("\"'", TRUE, 0, -1, TRUE), Quote,
      Cls(">", TRUE, 0, -1, FALSE), Lit(">")>>

\* m ? decodeHtml(m[1]) : ''
Group1(m) == IF m.ok THEN decodeHtml(m.cap) ELSE ""

pick(h, re) == Group1(ExecFrom(h, re, 1))

\* /<title>([^<]*)<\/title>/i
TitleRe == <<Lit("<title>"), Cls("<", TRUE, 0, -1, TRUE), Lit("</title>")>>

extractTitle(h) == Group1(ExecFrom(h, TitleRe, 1))

\* try { return new URL(d).href } catch (_) { return d }
HrefOr(u, d) == IF u.ok THEN u.href ELSE d

UnwrapDecoded(imageUrl, d) ==
    IF d.threw THEN imageUrl ELSE HrefOr(NewURL(d.value), d.value)

UnwrapParam(imageUrl, original) ==
    IF original.found /\ original.value # ""
    THEN UnwrapDecoded(imageUrl, decodeURIComponent(original.value))
    ELSE imageUrl

UnwrapParsed(imageUrl, u) ==
    IF ~u.ok THEN imageUrl
    ELSE IF Includes(u.pathname, "/safe_image.php")
    THEN UnwrapParam(imageUrl, SearchParamsGet(u.search, "url"))
    ELSE imageUrl

unwrapSafeImage(imageUrl) == UnwrapParsed(imageUrl, NewURL(imageUrl))

\* /<img[^>]+(?:data-src|src)=["']([^"']+)["'][^>]*>/ig
ImgRe == <<Lit("<img"), Cls(">", TRUE, 1, -1, FALSE), Alt(<<"data-src", "src">>),
           Lit("="), Quote, Cls("\"'", TRUE, 1, -1, TRUE), Quote,
           Cls(">", TRUE, 0, -1, FALSE), Lit(">")>>

\* /pixel|analytics|spacer/i
IsTrackingName(a) ==
    Includes(a, "pixel") \/ Includes(a, "analytics") \/ Includes(a, "spacer")

\* /\.svg($|\?)/i
IsSvg(a) == EndsWith(a, ".svg") \/ Includes(a, ".svg?")

\* lines 260-268: the candidates the image src contributes
KeepImage(src, abs) ==
    IF src = "" THEN <<>>
    ELSE IF ~abs.ok THEN <<>>
    ELSE IF abs.href = "" THEN <<>>
    ELSE IF StartsWith(abs.href, "data:") THEN <<>>
    ELSE IF IsTrackingName(ToLowerCase(abs.href)) THEN <<>>
    ELSE IF IsSvg(ToLowerCase(abs.href)) THEN <<>>
    ELSE <<abs.href>>

\* the while loop of extractImageFallback: the candidates of html from
\* position from on (re.lastIndex), in document order
RECURSIVE ImageCandidates(_, _, _)
RECURSIVE ImagesFrom(_, _, _)
ImageCandidates(h, baseUrl, from) == ImagesFrom(h, baseUrl, ExecFrom(h, ImgRe, from))
ImagesFrom(h, baseUrl, m) ==
    IF ~m.ok THEN <<>>
    ELSE KeepImage(m.cap, Resolve(m.cap, baseUrl)) \o ImageCandidates(h, baseUrl, m.end)

\* lines 270-273
FirstImage(cands) ==
    IF \E i \in 1..Len(cands) : Includes(cands[i], "/safe_image.php")
    THEN unwrapSafeImage(cands[Min({i \in 1..Len(cands) :
                                        Includes(cands[i], "/safe_image.php")})])
    ELSE IF Len(cands) > 0 THEN cands[1] ELSE ""

extractImageFallback(h, baseUrl) == FirstImage(ImageCandidates(h, baseUrl, 1))

\* lines 212-215: the meta image, made absolute and unwrapped
MetaImage(image, baseUrl) ==
    IF image # "" THEN unwrapSafeImage(HrefOr(Resolve(image, baseUrl), image)) ELSE image

\* a faulty variant: an <img> of the page is preferred to the meta image
ImageOrImgFirst(image, h, baseUrl) ==
    IF extractImageFallback(h, baseUrl) # "" THEN extractImageFallback(h, baseUrl) ELSE image

\* lines 216-218
ImageOr(image, h, baseUrl) == IF image = "" THEN extractImageFallback(h, baseUrl) ELSE image

\* a faulty variant: the <title> text is preferred to the meta tags and the
\* generic description to the Twitter one
MetaOfTitleFirst(h, baseUrl, ogTitle, ogDesc, metaDesc, ogImage, ogImageSecure, ogImageUrl, ogSite, twDesc, titleTag) ==
    [name |-> OrS(OrS(OrS(titleTag, ogSite), ogTitle), ""),
     caption |-> OrS(OrS(OrS(ogDesc, metaDesc), twDesc), ""),
     image |-> ImageOr(MetaImage(OrS(OrS(ogImage, ogImageSecure), ogImageUrl), baseUrl),
                       h, baseUrl),
     ogTitle |-> ogTitle,
     ogDesc |-> ogDesc,
     rawTitle |-> titleTag]

\* lines 211-222
MetaOf(h, baseUrl, ogTitle, ogDesc, metaDesc, ogImage, ogImageSecure, ogImageUrl, ogSite, twDesc, titleTag) ==
    [name |-> OrS(OrS(OrS(ogSite, ogTitle), titleTag), ""),
     caption |-> OrS(OrS(OrS(ogDesc, twDesc), metaDesc), ""),
     image |-> ImageOr(MetaImage(OrS(OrS(ogImage, ogImageSecure), ogImageUrl), baseUrl),
                       h, baseUrl),
     ogTitle |-> ogTitle,
     ogDesc |-> ogDesc,
     rawTitle |-> titleTag]

extractMeta(h, baseUrl) ==
    MetaOf(h, baseUrl,
           pick(h, MetaRe("property", "og:title")),
           pick(h, MetaRe("property", "og:description")),
           pick(h, MetaRe("name", "description")),
           pick(h, MetaRe("property", "og:image")),
           pick(h, MetaRe("property", "og:image:secure_url")),
           pick(h, MetaRe("property", "og:image:url")),
           pick(h, MetaRe("property", "og:site_name")),
           pick(h, MetaRe("name", "twitter:description")),
           extractTitle(h))

-----------------------------------------------------------------------------
(* fb-scrape: the requests and the remote end's answers the model draws    *)

\* how many of the request URLs and of the response bodies are drawn
MaxUrls == 4
MaxBodies == 5

UrlInputs ==
    <<"https://www.facebook.com/somepage/posts/123",
      "https://m.facebook.com/story.php?story_fbid=1&id=2",
      "https://u:p@www.facebook.com/p",
      "www.facebook.com/somepage",
      "http://MBASIC.Facebook.com:80/p#x",
      "https://facebook.com:8443",
      "https://example.com/a?b=c">>

LoginHtml == "<html><title>Log into Facebook</title></html>"
GatedOgHtml ==
    "<meta property=\"og:title\" content=\"Post\"><div>Log In or\nSign Up to View</div>"
SeePostsHtml ==
    "<meta name=\"description\" content=\"See posts, photos and more on Facebook.\">"
OgHtml ==
    "<title>T</title><meta property=\"og:title\" content=\"A &amp; B\">"
    \o "<meta property=\"og:description\" content=\"D\">"
    \o "<meta property=\"og:image\" content=\"/i.jpg\">"
TitleImgHtml == "<title>Example</title><img src=\"/a.jpg\">"
BareHtml == "<html></html>"

Bodies == <<"", LoginHtml, OgHtml, GatedOgHtml, TitleImgHtml, BareHtml, SeePostsHtml>>

Take(seq, n) == {seq[i] : i \in 1..(IF n < Len(seq) THEN n ELSE Len(seq))}

\* event.body: absent, not JSON, or the value JSON.parse gives
BodyAbsent == [kind |-> "absent", value |-> Undefined]
BodyMalformed == [kind |-> "malformed", value |-> Undefined]
BodyJson(v) == [kind |-> "json", value |-> v]

ScrapeBodies ==
    {BodyAbsent, BodyMalformed, BodyJson(Null), BodyJson(Num(7)),
     BodyJson(Obj([cookies |-> Str("a=b")])),
     BodyJson(Obj([url |-> Num(5)])), BodyJson(Obj([url |-> Str("")]))}
    \cup {BodyJson(Obj([url |-> Str(u)])) : u \in Take(UrlInputs, MaxUrls)}

Methods == {"OPTIONS", "GET", "POST"}

\* where a followed redirect may end (res.url)
RedirectUrl == "https://m.facebook.com/login.php?next=x"

-----------------------------------------------------------------------------
(* fb-scrape: the handler *)

userAgents == <<"chrome", "fb">>

NoResponse == [returned |-> FALSE, statusCode |-> 0, body |-> <<>>]
Return(status, body) == [returned |-> TRUE, statusCode |-> status, body |-> body]

\* JSON.parse(event.body || '{}'): [threw, value]
ParseBody(body) ==
    CASE body.kind = "absent" -> [threw |-> FALSE, value |-> Obj(<<>>)]
      [] body.kind = "malformed" -> [threw |-> TRUE, value |-> Undefined]
      [] OTHER -> [threw |-> FALSE, value |-> body.value]

\* const { x } = v: [threw, value]; null and undefined cannot be destructured
GetField(v, x) ==
    IF v.t \in {"null", "undefined"} THEN [threw |-> TRUE, value |-> Undefined]
    ELSE IF v.t = "object" /\ x \in DOMAIN v.v THEN [threw |-> FALSE, value |-> v.v[x]]
    ELSE [threw |-> FALSE, value |-> Undefined]

\* a faulty variant: the missing url is answered as an HTTP error
MissingUrlBadRequest == Return(400, [error |-> Str("Missing url")])

MissingUrlResponse ==
    Return(200, [ok |-> Bool(FALSE), reason |-> Str("missing-url"), name |-> Str("unknown"),
                 caption |-> Str(""), imageUrl |-> Str("")])

ExceptionResponse ==
    Return(200, [ok |-> Bool(FALSE), reason |-> Str("exception"), details |-> Str("Error"),
                 name |-> Str("unknown"), caption |-> Str(""), imageUrl |-> Str("")])

\* a faulty variant: the attempt in flight is left out of the trail
FetchFailedShortTrail(t) ==
    Return(200, [ok |-> Bool(FALSE), reason |-> Str("fetch-failed"),
                 tried |-> Arr(SubSeq(t, 1, Len(t) - 1)),
                 name |-> Str("unknown"), caption |-> Str(""), imageUrl |-> Str("")])

FetchFailedResponse(t) ==
    Return(200, [ok |-> Bool(FALSE), reason |-> Str("fetch-failed"), tried |-> Arr(t),
                 name |-> Str("unknown"), caption |-> Str(""), imageUrl |-> Str("")])

\* a faulty variant: the request URL is reported as the final URL
SuccessResponseEchoInput(input, fUrl, meta, t) ==
    Return(200, [ok |-> Bool(TRUE), inputUrl |-> Str(input), finalUrl |-> Str(input),
                 name |-> Str(OrS(meta.name, "unknown")),
                 caption |-> Str(OrS(meta.caption, "")),
                 imageUrl |-> Str(OrS(meta.image, "")),
                 ogTitle |-> Str(OrS(meta.ogTitle, "")),
                 ogDesc |-> Str(OrS(meta.ogDesc, "")),
                 rawTitle |-> Str(OrS(meta.rawTitle, "")),
                 tried |-> Arr(t)])

SuccessResponse(input, fUrl, meta, t) ==
    Return(200, [ok |-> Bool(TRUE), inputUrl |-> Str(input), finalUrl |-> Str(fUrl),
                 name |-> Str(OrS(meta.name, "unknown")),
                 caption |-> Str(OrS(meta.caption, "")),
                 imageUrl |-> Str(OrS(meta.image, "")),
                 ogTitle |-> Str(OrS(meta.ogTitle, "")),
                 ogDesc |-> Str(OrS(meta.ogDesc, "")),
                 rawTitle |-> Str(OrS(meta.rawTitle, "")),
                 tried |-> Arr(t)])

\* `${candidate} [ua:${ua}]`
TriedEntry(candidate, ua) == candidate \o " [ua:" \o ua \o "]"

\* what safeFetch returns: null, or { ok, status, url, text }
NullResult == [null |-> TRUE, ok |-> FALSE, status |-> 0, url |-> "", text |-> ""]
Result(r, text) == [null |-> FALSE, ok |-> r.ok, status |-> r.status, url |-> r.url,
                    text |-> text]

\* a faulty variant: success judged on the status alone
QualifiesByStatus(r) == ~r.null /\ r.ok /\ r.text # ""

\* lines 113-115: res && res.ok && res.text, and not a login interstitial
Qualifies(r) ==
    /\ ~r.null
    /\ r.ok
    /\ r.text # ""
    /\ ~isFacebookLoginInterstitial(r.text)

\* a faulty variant: the inner loop is left after its first identity
NextPairOneIdentity(c, u) == [c |-> c + 1, u |-> 1]

\* the pair the nested for loops visit after (c, u); c beyond the candidates
\* when there is none
NextPair(c, u) ==
    IF u < Len(userAgents) THEN [c |-> c, u |-> u + 1] ELSE [c |-> c + 1, u |-> 1]

\* history: clear, the result is HTTP-successful and its body matches no
\* login-interstitial signature; usable, it has a body as well
Classify(r) ==
    [clear |-> ~r.null /\ r.ok /\ ~isFacebookLoginInterstitial(r.text),
     usable |-> ~r.null /\ r.ok /\ ~isFacebookLoginInterstitial(r.text) /\ r.text # ""]

\* history: wall, the result is HTTP-successful and its body matches a
\* login-interstitial signature; kept for the first attempt only, to keep the
\* history small
WithWall(i, r, c) ==
    [clear |-> c.clear, usable |-> c.usable, wall |-> i = 1 /\ ~r.null /\ r.ok /\ ~c.clear]

ClassifyAt(i, r) == WithWall(i, r, Classify(r))

NoFres == [ok |-> FALSE, status |-> 0, url |-> ""]
NoExtract == [called |-> FALSE, html |-> "", baseUrl |-> ""]

ScrapeInit ==
    /\ event \in [httpMethod : Methods, body : ScrapeBodies]
    /\ spc = "start"
    /\ candidates = <<>>
    /\ ci = 0
    /\ ui = 0
    /\ tried = <<>>
    /\ html = ""
    /\ finalUrl = ""
    /\ timerArmed = FALSE
    /\ fres = NoFres
    /\ res = NullResult
    /\ attempts = <<>>
    /\ extractArgs = NoExtract
    /\ response = NoResponse
    /\ rEvent = <<>>
    /\ rpc = "idle"
    /\ url = ""
    /\ cookies = <<>>
    /\ browser = "null"
    /\ session = "none"
    /\ closeCalls = 0
    /\ page = [created |-> FALSE, location |-> "", cookiesSet |-> FALSE, intercept |-> FALSE,
              dom |-> <<>>]
    /\ element = Undefined
    /\ box = Undefined
    /\ clip = Null
    /\ shot = [called |-> FALSE, fullPage |-> FALSE, clip |-> Undefined]
    /\ trace = <<>>
    /\ rResponse = NoResponse
    /\ fnPc = "idle"
    /\ fnArg = <<>>
    /\ fnOut = <<>>

ScrapeReturn(r) ==
    /\ response' = r
    /\ spc' = "done"

\* lines 81-112 and 181-183: the handler up to its first await
ScrapeEnter ==
    /\ UNCHANGED <<renderVars, pureVars>>
    /\ spc = "start"
    /\ UNCHANGED <<event, html, finalUrl, fres, res, attempts, extractArgs>>
    /\ IF event.httpMethod = "OPTIONS"
       THEN /\ ScrapeReturn(Return(200, <<>>))
            /\ UNCHANGED <<candidates, ci, ui, tried, timerArmed>>
       ELSE IF event.httpMethod # "POST"
       THEN /\ ScrapeReturn(Return(405, [error |-> Str("Method Not Allowed")]))
            /\ UNCHANGED <<candidates, ci, ui, tried, timerArmed>>
       ELSE
       LET parsed == ParseBody(event.body)
           field == IF parsed.threw THEN parsed ELSE GetField(parsed.value, "url")
           u == field.value
           built == IF u.t = "string" THEN buildCandidateUrls(u.v)
                    ELSE [threw |-> TRUE, value |-> <<>>]
       IN IF field.threw
          THEN /\ ScrapeReturn(ExceptionResponse)
               /\ UNCHANGED <<candidates, ci, ui, tried, timerArmed>>
          ELSE IF ~Truthy(u) \/ u.t # "string"
          THEN /\ ScrapeReturn(MissingUrlResponse)
               /\ UNCHANGED <<candidates, ci, ui, tried, timerArmed>>
          ELSE IF built.threw
          THEN /\ ScrapeReturn(ExceptionResponse)
               /\ UNCHANGED <<candidates, ci, ui, tried, timerArmed>>
          ELSE /\ candidates' = built.value
               /\ ci' = 1
               /\ ui' = 1
               /\ tried' = <<TriedEntry(built.value[1], userAgents[1])>>
               /\ timerArmed' = TRUE
               /\ spc' = "awaitFetch"
               /\ UNCHANGED response

InputUrl == event.body.value.v.url.v

\* lines 113-148 after safeFetch returned r, up to the next await or the return
AfterAttempt(r) ==
    LET candidate == candidates[ci]
        next == NextPair(ci, ui)
    IN /\ attempts' = Append(attempts, ClassifyAt(Len(attempts) + 1, r))
       /\ fres' = NoFres
       /\ UNCHANGED <<event, candidates>>
       /\ IF Qualifies(r)
          THEN LET f == OrS(r.url, candidate) IN
               /\ html' = r.text
               /\ finalUrl' = f
               /\ extractArgs' = [called |-> TRUE, html |-> r.text, baseUrl |-> f]
               /\ ScrapeReturn(SuccessResponse(InputUrl, f, extractMeta(r.text, f), tried))
               /\ res' = r
               /\ timerArmed' = FALSE
               /\ UNCHANGED <<ci, ui, tried>>
          ELSE IF next.c <= Len(candidates)
          THEN /\ ci' = next.c
               /\ ui' = next.u
               /\ tried' = Append(tried, TriedEntry(candidates[next.c], userAgents[next.u]))
               /\ timerArmed' = TRUE
               /\ spc' = "awaitFetch"
               /\ res' = NullResult
               /\ UNCHANGED <<html, finalUrl, extractArgs, response>>
          ELSE /\ ScrapeReturn(FetchFailedResponse(tried))
               /\ res' = r
               /\ timerArmed' = FALSE
               /\ UNCHANGED <<ci, ui, tried, html, finalUrl, extractArgs>>

\* line 183-184: fetch resolved with response headers; the timeout is cleared
FetchResolves ==
    /\ UNCHANGED <<renderVars, pureVars>>
    /\ spc = "awaitFetch"
    /\ \E ok \in BOOLEAN, u \in {"", candidates[ci], RedirectUrl} :
         fres' = [ok |-> ok, status |-> IF ok THEN 200 ELSE 404, url |-> u]
    /\ timerArmed' = FALSE
    /\ spc' = "awaitText"
    /\ UNCHANGED <<event, candidates, ci, ui, tried, html, finalUrl, res, attempts,
                   extractArgs, response>>

\* a faulty variant: the rejection of fetch is not caught and reaches the
\* handler's catch block
FetchRejectsUncaught ==
    /\ UNCHANGED <<renderVars, pureVars>>
    /\ spc = "awaitFetch"
    /\ ScrapeReturn(ExceptionResponse)
    /\ attempts' = Append(attempts, ClassifyAt(Len(attempts) + 1, NullResult))
    /\ fres' = NoFres
    /\ res' = NullResult
    /\ timerArmed' = FALSE
    /\ UNCHANGED <<event, candidates, ci, ui, tried, html, finalUrl, extractArgs>>

\* line 183, 185: fetch rejected (network error): .catch gives null
FetchRejects ==
    /\ UNCHANGED <<renderVars, pureVars>>
    /\ spc = "awaitFetch"
    /\ AfterAttempt(NullResult)

\* line 182: the timeout fires, controller.abort() rejects the pending fetch
FetchTimesOut ==
    /\ UNCHANGED <<renderVars, pureVars>>
    /\ spc = "awaitFetch"
    /\ timerArmed
    /\ AfterAttempt(NullResult)

\* line 186-187: the body was read
TextArrives ==
    /\ UNCHANGED <<renderVars, pureVars>>
    /\ spc = "awaitText"
    /\ \E text \in Take(Bodies, MaxBodies) : AfterAttempt(Result(fres, text))

\* line 186: reading the body failed: .catch gives ''
TextFails ==
    /\ UNCHANGED <<renderVars, pureVars>>
    /\ spc = "awaitText"
    /\ AfterAttempt(Result(fres, ""))

ScrapeNext ==
    \/ ScrapeEnter
    \/ FetchResolves
    \/ FetchRejects
    \/ FetchTimesOut
    \/ TextArrives
    \/ TextFails

ScrapeSpec == ScrapeInit /\ [][ScrapeNext]_vars

-----------------------------------------------------------------------------
(* fb-scrape: the claims *)

Awaiting == spc \in {"awaitFetch", "awaitText"}

\* the i-th pair of the candidate x identity product, row-major
PairEntry(i) ==
    TriedEntry(candidates[((i - 1) \div Len(userAgents)) + 1],
               userAgents[((i - 1) % Len(userAgents)) + 1])

AllPairs == [i \in 1..(Len(candidates) * Len(userAgents)) |-> PairEntry(i)]

HasReason(r, reason) ==
    /\ r.returned
    /\ "reason" \in DOMAIN r.body
    /\ r.body.reason = Str(reason)

IsOk(r) == r.returned /\ "ok" \in DOMAIN r.body /\ r.body.ok = Bool(TRUE)

\* C1 as stated: the loop stops at the first attempt whose result is
\* HTTP-successful and matches no login-interstitial signature: every such
\* attempt is the last one made and its body is what the extractor gets.
C1_StopsAtFirstClear ==
    \A i \in 1..Len(attempts) :
        attempts[i].clear => (i = Len(attempts) /\ ~Awaiting /\ extractArgs.called)

\* C1, amended: the attempts made are a prefix of the candidate x identity
\* product in row-major order; the loop stops at the first attempt whose
\* result is HTTP-successful, has a non-empty body and matches no
\* login-interstitial signature: that attempt is the last one made, its body
\* and final URL (the response's URL, else the candidate) are the extractor's
\* arguments, and the extractor is called for no other attempt.
C1_StopsAtFirstUsable ==
    /\ Len(tried) = Len(attempts) + (IF Awaiting THEN 1 ELSE 0)
    /\ \A i \in 1..Len(tried) : tried[i] = PairEntry(i)
    /\ \A i \in 1..Len(attempts) :
         attempts[i].usable =>
            /\ i = Len(attempts)
            /\ spc = "done"
            /\ IsOk(response)
            /\ extractArgs = [called |-> TRUE, html |-> res.text,
                              baseUrl |-> OrS(res.url, candidates[ci])]
            /\ response.body.finalUrl = Str(extractArgs.baseUrl)
    /\ (extractArgs.called \/ IsOk(response)) =>
         (Len(attempts) > 0 /\ attempts[Len(attempts)].usable)

\* an earlier pair failed, a later one qualified, and pairs were left untried
C1_Witness ==
    /\ IsOk(response)
    /\ Len(attempts) >= 2
    /\ Len(tried) < Len(candidates) * Len(userAgents)
    /\ attempts[1].clear
    /\ res.url # ""

\* C2: a response whose body matches a login-interstitial signature does not
\* qualify even with status 200: its body is never the extractor's html and
\* never gives ok:true, and the loop ends on it only when no pair is left.
C2_LoginBodyNeverQualifies ==
    /\ extractArgs.called => ~isFacebookLoginInterstitial(extractArgs.html)
    /\ (spc = "done" /\ ~res.null /\ isFacebookLoginInterstitial(res.text)) =>
         /\ ~IsOk(response)
         /\ HasReason(response, "fetch-failed")
         /\ tried = AllPairs

\* the last pair answered 200 with a login interstitial that carries og tags
C2_Witness ==
    /\ spc = "done"
    /\ res.ok /\ res.status = 200
    /\ res.text = GatedOgHtml
    /\ HasReason(response, "fetch-failed")

\* C4: an attempt waiting on the remote end (for the response headers or
\* for the body) always has its cancellation deadline pending, so a remote
\* end that hangs there is cancelled.
C4_WaitingAttemptHasDeadline == Awaiting => timerArmed

\* C5: when no attempt qualifies the handler returns fetch-failed with the
\* whole candidate x identity product, in the order attempted, as tried.
C5_FetchFailedListsAllPairs ==
    (spc = "done" /\ candidates # <<>> /\ \A i \in 1..Len(attempts) : ~attempts[i].usable) =>
        /\ response.returned
        /\ response.statusCode = 200
        /\ response.body.ok = Bool(FALSE)
        /\ HasReason(response, "fetch-failed")
        /\ response.body.tried = Arr(AllPairs)
        /\ Len(attempts) = Len(AllPairs)

C5_Witness ==
    /\ HasReason(response, "fetch-failed")
    /\ Len(response.body.tried.v) = 6
    /\ attempts[2].clear

\* C6: every POST is answered with status 200 and a JSON body whose ok is a
\* boolean and whose name, caption and imageUrl are strings; the exhaustion
\* of all pairs is answered ok:false.
C6_PostAlwaysSoft200 ==
    (event.httpMethod = "POST" /\ response.returned) =>
        /\ response.statusCode = 200
        /\ {"ok", "name", "caption", "imageUrl"} \subseteq DOMAIN response.body
        /\ response.body.ok.t = "boolean"
        /\ response.body.name.t = "string"
        /\ response.body.caption.t = "string"
        /\ response.body.imageUrl.t = "string"
        /\ (Len(attempts) > 0 /\ ~attempts[Len(attempts)].usable) =>
              response.body.ok = Bool(FALSE)

\* a POST whose url is not parsable, answered by the catch block
C6_Witness ==
    /\ event.httpMethod = "POST"
    /\ event.body = BodyJson(Obj([url |-> Str("www.facebook.com/somepage")]))
    /\ HasReason(response, "exception")

IsFacebookHost(hostname) == hostname = "facebook.com" \/ EndsWith(hostname, ".facebook.com")

\* the hosts C7 expects: the original one, then the mirrors it is not
ExpectedHosts(host) ==
    <<host>> \o SelectSeq(<<MobileHost, BasicHost>>, LAMBDA h : h # host)

SamePathAndQuery(candidate, host, u) ==
    /\ NewURL(candidate).host = host
    /\ NewURL(candidate).pathname = u.pathname
    /\ NewURL(candidate).search = u.search

\* C7: for a parsable URL on facebook.com the candidates are the original
\* host, then m.facebook.com, then mbasic.facebook.com, no host twice, each
\* with the path and query of the input.
C7_CandidatesKeepPathAndQuery ==
    (candidates # <<>> /\ IsFacebookHost(NewURL(InputUrl).hostname)) =>
        /\ Len(candidates) = Len(ExpectedHosts(NewURL(InputUrl).host))
        /\ \A i \in 1..Len(candidates) :
             SamePathAndQuery(candidates[i], ExpectedHosts(NewURL(InputUrl).host)[i],
                              NewURL(InputUrl))

-----------------------------------------------------------------------------
(* screenshot-post: strings and values *)

\* String.prototype.trim
TrimTo(s, keep) == IF keep = {} THEN "" ELSE SubSeq(s, Min(keep), Max(keep))
Trim(s) == TrimTo(s, {i \in 1..Len(s) : ~InChars(At(s, i), WhiteSpace)})

Digits == "0123456789"

RECURSIVE NatToString(_)
NatToString(n) ==
    IF n < 10 THEN At(Digits, n + 1)
    ELSE NatToString(n \div 10) \o At(Digits, (n % 10) + 1)

\* String(x); an array is its elements joined by commas, null and undefined
\* elements as ''
RECURSIVE ToStringJS(_)
RECURSIVE JoinJS(_, _)
ToStringJS(x) ==
    CASE x.t = "string" -> x.v
      [] x.t = "number" -> IF x.v < 0 THEN "-" \o NatToString(-x.v) ELSE NatToString(x.v)
      [] x.t = "boolean" -> IF x.v THEN "true" ELSE "false"
      [] x.t = "undefined" -> "undefined"
      [] x.t = "null" -> "null"
      [] x.t = "array" -> JoinJS(x.v, 1)
      [] OTHER -> "[object Object]"
JoinJS(a, i) ==
    IF i > Len(a) THEN ""
    ELSE (IF a[i].t \in {"null", "undefined"} THEN "" ELSE ToStringJS(a[i]))
         \o (IF i < Len(a) THEN "," ELSE "") \o JoinJS(a, i + 1)

\* x.k of a value that is neither null nor undefined
Prop(x, k) == IF x.t = "object" /\ k \in DOMAIN x.v THEN x.v[k] ELSE Undefined

-----------------------------------------------------------------------------
(* screenshot-post: normalizeFacebookUrl *)

\* u.hostname.replace(/^www\./, '')
StripWww(hostname) == IF StartsWith(hostname, "www.") THEN From(hostname, 5) ELSE hostname

\* /facebook\.com$/i
FacebookRe(hostname) == EndsWith(ToLowerCase(hostname), "facebook.com")

\* u.hostname = h; u.toString()
WithHostname(u, h) == MakeURL(u.scheme, u.userinfo, h, u.port, u.path).href

NormalizeParsed(input, u) ==
    IF ~u.ok THEN input
    ELSE IF FacebookRe(u.hostname) \/ FacebookRe(StripWww(u.hostname))
    THEN WithHostname(u, BasicHost)
    ELSE input

normalizeFacebookUrl(input) == NormalizeParsed(input, NewURL(input))

-----------------------------------------------------------------------------
(* screenshot-post: the cookie spec parser *)

\* the JSON texts the model draws, with the value JSON.parse gives; any
\* other text is not JSON
JsonTable ==
    {<<"[{\"name\":\"a\",\"value\":\"b\"}]",
       Arr(<<Obj([name |-> Str("a"), value |-> Str("b")])>>)>>,
     <<"[{\"name\":\" \",\"value\":\"x\"},{\"name\":\"c_user\",\"value\":1,\"secure\":false}]",
       Arr(<<Obj([name |-> Str(" "), value |-> Str("x")]),
             Obj([name |-> Str("c_user"), value |-> Num(1), secure |-> Bool(FALSE)])>>)>>,
     <<"[null]", Arr(<<Null>>)>>,
     <<"[]", Arr(<<>>)>>}

Threw == [threw |-> TRUE, value |-> Undefined]
NoThrow(v) == [threw |-> FALSE, value |-> v]

\* JSON.parse of the text of an array of {"name":"..","value":".."} objects
\* whose strings hold no escapes; any other text is not JSON here
NamePre == "{\"name\":\""
ValuePre == "\",\"value\":\""

RECURSIVE JsonMembers(_)
JsonCons(obj, tail) == IF tail.threw THEN tail ELSE NoThrow(<<obj>> \o tail.value)
JsonRest(obj, r) ==
    IF r = "" THEN NoThrow(<<obj>>)
    ELSE IF StartsWith(r, ",") THEN JsonCons(obj, JsonMembers(From(r, 2)))
    ELSE Threw
JsonTail(name, value, r) ==
    IF StartsWith(r, "\"}")
    THEN JsonRest(Obj([name |-> Str(name), value |-> Str(value)]), From(r, 3))
    ELSE Threw
JsonAfterValue(name, r) == JsonTail(name, Before(r, "\""), From(r, Len(Before(r, "\"")) + 1))
JsonValuePart(name, r) ==
    IF StartsWith(r, ValuePre) THEN JsonAfterValue(name, From(r, Len(ValuePre) + 1)) ELSE Threw
JsonAfterName(r) == JsonValuePart(Before(r, "\""), From(r, Len(Before(r, "\"")) + 1))
JsonMembers(t) ==
    IF StartsWith(t, NamePre) THEN JsonAfterName(From(t, Len(NamePre) + 1)) ELSE Threw

JsonArrayOf(members) == IF members.threw THEN Threw ELSE NoThrow(Arr(members.value))

JsonCookieArray(text) ==
    IF StartsWith(text, "[") /\ EndsWith(text, "]") /\ Len(text) > 2
    THEN JsonArrayOf(JsonMembers(SubSeq(text, 2, Len(text) - 1)))
    ELSE Threw

\* JSON.parse: [threw, value]
JsonParse(text) ==
    IF \E e \in JsonTable : e[1] = text
    THEN [threw |-> FALSE, value |-> (CHOOSE e \in JsonTable : e[1] = text)[2]]
    ELSE JsonCookieArray(text)

DefaultDomain == ".facebook.com"

\* lines 204-214
CookieOut(c, name, value) ==
    [name |-> Str(name),
     value |-> Str(value),
     domain |-> Or(Prop(c, "domain"), Str(DefaultDomain)),
     path |-> Or(Prop(c, "path"), Str("/")),
     httpOnly |-> Bool(Truthy(Prop(c, "httpOnly"))),
     secure |-> IF Prop(c, "secure").t = "boolean" THEN Prop(c, "secure") ELSE Bool(TRUE),
     sameSite |-> Or(Prop(c, "sameSite"), Str("Lax"))]

WithExpires(c, out) ==
    IF Prop(c, "expires").t = "number"
    THEN [k \in DOMAIN out \cup {"expires"} |->
             IF k = "expires" THEN Prop(c, "expires") ELSE out[k]]
    ELSE out

\* the callback of arr.map: <<>> stands for null
SanitizeOne(c) ==
    IF Trim(ToStringJS(Or(Prop(c, "name"), Str("")))) = "" THEN <<>>
    ELSE <<WithExpires(c, CookieOut(c, Trim(ToStringJS(Or(Prop(c, "name"), Str("")))),
                                    Trim(ToStringJS(Or(Prop(c, "value"), Str(""))))))>>

RECURSIVE Flatten(_, _)
Flatten(seqs, i) == IF i > Len(seqs) THEN <<>> ELSE seqs[i] \o Flatten(seqs, i + 1)

\* [threw, value]: reading c.name of a null or undefined entry throws
sanitizeCookiesArray(arr) ==
    IF arr.t # "array" THEN [threw |-> FALSE, value |-> <<>>]
    ELSE IF \E i \in 1..Len(arr.v) : arr.v[i].t \in {"null", "undefined"}
    THEN [threw |-> TRUE, value |-> <<>>]
    ELSE [threw |-> FALSE,
          value |-> Flatten([i \in 1..Len(arr.v) |-> SanitizeOne(arr.v[i])], 1)]

\* String.prototype.split on a one-character separator
RECURSIVE Split(_, _)
Split(s, sep) ==
    IF Positions(s, sep) = {} THEN <<s>>
    ELSE <<Before(s, sep)>> \o Split(From(s, Len(Before(s, sep)) + 2), sep)

\* lines 185-191: the record of one name=value part; <<>> stands for null
HeaderCookie(part) ==
    IF IndexOf(part, "=") = 0 THEN <<>>
    ELSE <<[name |-> Str(Trim(SubSeq(part, 1, IndexOf(part, "=") - 1))),
            value |-> Str(Trim(From(part, IndexOf(part, "=") + 1))),
            domain |-> Str(DefaultDomain),
            path |-> Str("/"),
            httpOnly |-> Bool(FALSE),
            secure |-> Bool(TRUE)]>>

\* lines 184-192
HeaderParts(parts) ==
    Flatten([i \in 1..Len(parts) |->
                IF Trim(parts[i]) = "" THEN <<>> ELSE HeaderCookie(Trim(parts[i]))], 1)

\* a faulty variant: no catch, the exception leaves parseCookies
Uncaught(r) == r

\* lines 174, 194-195: catch (_) {} and return []; [threw, value]
OrEmpty(r) == [threw |-> FALSE, value |-> IF r.threw THEN <<>> ELSE r.value]

\* lines 180-181, without the catch: [threw, value]
SanitizeParsed(parsed) ==
    IF parsed.threw THEN [threw |-> TRUE, value |-> <<>>]
    ELSE sanitizeCookiesArray(parsed.value)

\* lines 177-192, without the catch: [threw, value]
ParseCookieString(trimmed) ==
    IF trimmed = "" THEN NoThrow(<<>>)
    ELSE IF StartsWith(trimmed, "[") THEN SanitizeParsed(JsonParse(trimmed))
    ELSE NoThrow(HeaderParts(Split(trimmed, ";")))

\* lines 175-193, the body of the try block: [threw, value]
TryParseCookies(input) ==
    IF input.t = "array" THEN sanitizeCookiesArray(input)
    ELSE IF input.t = "string" THEN ParseCookieString(Trim(input.v))
    ELSE NoThrow(<<>>)

\* parseCookies as a call that returns or throws: [threw, value]
parseCookiesOutcome(input) ==
    IF ~Truthy(input) THEN NoThrow(<<>>) ELSE OrEmpty(TryParseCookies(input))

parseCookies(input) == parseCookiesOutcome(input).value

\* ENV_COOKIES_JSON || ENV_COOKIE_HEADER || ''
EnvCookies(env) == Or(Or(Str(env.cookiesJson), Str(env.cookieHeader)), Str(""))

CookieInputOf(parsed, env) ==
    IF parsed.threw \/ parsed.value.t \in {"null", "undefined"} THEN EnvCookies(env)
    ELSE Or(Or(Prop(parsed.value, "cookies"), Prop(parsed.value, "cookie")), EnvCookies(env))

getCookieInput(ev) == CookieInputOf(ParseBody(ev.body), ev.env)

-----------------------------------------------------------------------------
(* screenshot-post: the requests and the browser's answers the model draws *)

\* how many of the request URLs, cookie inputs and documents are drawn
MaxRenderUrls == 3
MaxCookieInputs == 4
MaxDoms == 6

RenderUrls ==
    <<"https://www.facebook.com/somepage/posts/123",
      "  https://notfacebook.com/x ",
      "not a url",
      "https://example.com/a?b=c",
      "https://m.facebook.com/story.php?story_fbid=1&id=2">>

CookieInputs ==
    <<Str("c_user=1; xs=abc"),
      Arr(<<Obj([name |-> Str("a"), value |-> Str("b")])>>),
      Str("[bad"),
      Str("[{\"name\":\"a\",\"value\":\"b\"}]"),
      Arr(<<Null>>),
      Num(5),
      Str(" ; noeq"),
      Str("[]")>>

RenderBodies ==
    {BodyAbsent, BodyMalformed, BodyJson(Null),
     BodyJson(Obj([url |-> Num(5)])), BodyJson(Obj([url |-> Str("  ")])),
     BodyJson(Obj([url |-> Str(RenderUrls[1]), cookie |-> Str("a=b")]))}
    \cup {BodyJson(Obj([url |-> Str(u)])) : u \in Take(RenderUrls, MaxRenderUrls)}
    \cup {BodyJson(Obj([url |-> Str(RenderUrls[1]), cookies |-> c])) :
             c \in Take(CookieInputs, MaxCookieInputs)}

\* process.env and the modules installed: AWS_EXECUTION_ENV set or not,
\* require('puppeteer') resolving or not, the two cookie variables
Env(lambda, local, json, header) ==
    [onLambda |-> lambda, localInstalled |-> local, cookiesJson |-> json,
     cookieHeader |-> header]

Envs ==
    {Env(TRUE, FALSE, "", ""), Env(FALSE, TRUE, "", ""), Env(FALSE, FALSE, "", ""),
     Env(TRUE, FALSE, "", "c_user=1"),
     Env(TRUE, FALSE, "[{\"name\":\"a\",\"value\":\"b\"}]", "x=y")}

Selectors ==
    {"article", "#m_story_permalink_view", ".userContentWrapper", "[data-ft]",
     "[role=\"main\"]"}

\* a rendered element: the selectors it matches and what boundingBox() gives
El(matches, b) == Obj([matches |-> matches, box |-> b])
Box(x, y, w, h) == Obj([x |-> x, y |-> y, width |-> w, height |-> h])

\* the documents drawn, each the sequence of its elements in document order
Doms ==
    <<<<>>,
      <<El({"[role=\"main\"]"}, Box(0, 0, 640, 900)),
        El({"article", "[data-ft]"}, Box(20, 100, 600, 300))>>,
      <<El({"article"}, Box(0, 0, 0, 40))>>,
      <<El({}, Box(0, 0, 10, 10)), El({"article"}, Box(3, 5, 100, 50))>>,
      <<El({".userContentWrapper"}, Null)>>,
      <<El({"[data-ft]"}, Box(20, 100, 600, 300))>>,
      <<El({"#m_story_permalink_view"}, Box(10, 10, 50, 0))>>>>

RootUrl == "https://mbasic.facebook.com/"

\* where a followed redirect of the target may end
RenderRedirectUrl == "https://mbasic.facebook.com/login.php?next=x"

-----------------------------------------------------------------------------
(* screenshot-post: the handler *)

NoPage == [created |-> FALSE, location |-> "", cookiesSet |-> FALSE, intercept |-> FALSE,
           dom |-> <<>>]
NoShot == [called |-> FALSE, fullPage |-> FALSE, clip |-> Undefined]

BadRequestResponse ==
    Return(400, [error |-> Str("Invalid request body. Expected JSON with { url }.")])

FailedResponse ==
    Return(500, [error |-> Str("Failed to screenshot"), details |-> Str("Error")])

CapturedResponse(u) ==
    Return(200, [dataUrl |-> Str("data:image/jpeg;base64,/9j/"), url |-> Str(u)])

\* lines 31-33: String(body.url || '').trim(), '' when reading it throws
UrlOfParsed(parsed) ==
    IF parsed.threw \/ parsed.value.t \in {"null", "undefined"} THEN ""
    ELSE Trim(ToStringJS(Or(Prop(parsed.value, "url"), Str(""))))

RequestedUrl(ev) == UrlOfParsed(ParseBody(ev.body))

\* page.$ with a selector list: the first element, in document order, that
\* matches any of the selectors
QuerySelector(dom, selectors) ==
    IF \E i \in 1..Len(dom) : dom[i].v.matches \cap selectors # {}
    THEN dom[Min({i \in 1..Len(dom) : dom[i].v.matches \cap selectors # {}})]
    ELSE Null

\* a faulty variant: any box there is becomes the clip
ClipOfAnyBox(b) ==
    IF Truthy(b)
    THEN Obj([x |-> Max({0, b.v.x - 8}), y |-> Max({0, b.v.y - 8}),
              width |-> b.v.width + 16, height |-> b.v.height + 16])
    ELSE Null

\* a faulty variant: the corner is not kept on the page
ClipOfUnclamped(b) ==
    IF Truthy(b) /\ b.v.width > 0 /\ b.v.height > 0
    THEN Obj([x |-> b.v.x - 8, y |-> b.v.y - 8,
              width |-> b.v.width + 16, height |-> b.v.height + 16])
    ELSE Null

\* lines 119, 124-126
ClipOf(b) ==
    IF Truthy(b) /\ b.v.width > 0 /\ b.v.height > 0
    THEN Obj([x |-> Max({0, b.v.x - 8}), y |-> Max({0, b.v.y - 8}),
              width |-> b.v.width + 16, height |-> b.v.height + 16])
    ELSE Null

\* line 130: the argument of page.screenshot
ShotOf(c) == [called |-> TRUE, fullPage |-> ~Truthy(c), clip |-> Or(c, Undefined)]

\* a faulty variant: the preload is skipped
NeedsPreloadNever(c) == FALSE

\* line 96: cookies && cookies.length
NeedsPreload(c) == Len(c) > 0

\* a faulty variant: setCookie follows the root navigation however it ended
AfterRootAlwaysSetCookie(ok) == "setCookie"

\* lines 97-100: a failed root navigation leaves the try block
AfterRoot(ok) == IF ok THEN "setCookie" ELSE "gotoTarget"

\* the next awaited call is made
Goto(next, events) ==
    /\ rpc' = next
    /\ trace' = trace \o events \o <<next>>
    /\ UNCHANGED <<closeCalls, rResponse>>

RenderReturn(r, events) ==
    /\ rpc' = "done"
    /\ rResponse' = r
    /\ trace' = trace \o events
    /\ UNCHANGED closeCalls

\* a faulty variant: the failure is answered without closing the browser
RenderCatchNoClose(events) == RenderReturn(FailedResponse, events)

\* line 140: the catch block up to its await
RenderCatch(events) ==
    IF browser # "null"
    THEN /\ rpc' = "catchClose"
         /\ closeCalls' = closeCalls + 1
         /\ trace' = trace \o events \o <<"catchClose">>
         /\ UNCHANGED rResponse
    ELSE RenderReturn(FailedResponse, events)

RenderInit ==
    /\ rEvent \in [httpMethod : Methods, body : RenderBodies, env : Envs]
    /\ rpc = "start"
    /\ url = ""
    /\ cookies = <<>>
    /\ browser = "null"
    /\ session = "none"
    /\ closeCalls = 0
    /\ page = NoPage
    /\ element = Undefined
    /\ box = Undefined
    /\ clip = Null
    /\ shot = NoShot
    /\ trace = <<>>
    /\ rResponse = NoResponse
    /\ event = <<>>
    /\ spc = "idle"
    /\ candidates = <<>>
    /\ ci = 0
    /\ ui = 0
    /\ tried = <<>>
    /\ html = ""
    /\ finalUrl = ""
    /\ timerArmed = FALSE
    /\ fres = NoFres
    /\ res = NullResult
    /\ attempts = <<>>
    /\ extractArgs = NoExtract
    /\ response = NoResponse
    /\ fnPc = "idle"
    /\ fnArg = <<>>
    /\ fnOut = <<>>

\* lines 17-64: the handler up to its first await
RenderEnter ==
    /\ UNCHANGED <<scrapeVars, pureVars>>
    /\ rpc = "start"
    /\ UNCHANGED <<rEvent, browser, session, page, element, box, clip, shot>>
    /\ IF rEvent.httpMethod = "OPTIONS"
       THEN /\ RenderReturn(Return(200, <<>>), <<>>)
            /\ UNCHANGED <<url, cookies>>
       ELSE IF rEvent.httpMethod # "POST"
       THEN /\ RenderReturn(Return(405, [error |-> Str("Method Not Allowed")]), <<>>)
            /\ UNCHANGED <<url, cookies>>
       ELSE IF RequestedUrl(rEvent) = ""
       THEN /\ RenderReturn(BadRequestResponse, <<>>)
            /\ UNCHANGED <<url, cookies>>
       ELSE /\ url' = normalizeFacebookUrl(RequestedUrl(rEvent))
            /\ cookies' = parseCookies(getCookieInput(rEvent))
            /\ IF ~rEvent.env.onLambda /\ rEvent.env.localInstalled
               THEN Goto("launchLocal", <<>>)
               ELSE Goto("executablePath", <<>>)

\* line 53: puppeteerLocal.launch resolves; line 74 calls newPage
LocalLaunchOk ==
    /\ UNCHANGED <<scrapeVars, pureVars>>
    /\ rpc = "launchLocal"
    /\ browser' = "local"
    /\ session' = "open"
    /\ Goto("newPage", <<"launchLocal.ok">>)
    /\ UNCHANGED <<rEvent, url, cookies, page, element, box, clip, shot>>

\* a faulty variant: the failure of the local launch reaches the outer catch
LocalLaunchFailsSurfaced ==
    /\ UNCHANGED <<scrapeVars, pureVars>>
    /\ rpc = "launchLocal"
    /\ RenderCatch(<<"launchLocal.fail">>)
    /\ UNCHANGED <<rEvent, url, cookies, browser, session, page, element, box, clip, shot>>

\* line 53 rejects: the catch of line 63 turns to the bundled engine
LocalLaunchFails ==
    /\ UNCHANGED <<scrapeVars, pureVars>>
    /\ rpc = "launchLocal"
    /\ Goto("executablePath", <<"launchLocal.fail">>)
    /\ UNCHANGED <<rEvent, url, cookies, browser, session, page, element, box, clip, shot>>

\* line 64
ExecutablePathOk ==
    /\ UNCHANGED <<scrapeVars, pureVars>>
    /\ rpc = "executablePath"
    /\ Goto("launchBundled", <<"executablePath.ok">>)
    /\ UNCHANGED <<rEvent, url, cookies, browser, session, page, element, box, clip, shot>>

ExecutablePathFails ==
    /\ UNCHANGED <<scrapeVars, pureVars>>
    /\ rpc = "executablePath"
    /\ RenderCatch(<<"executablePath.fail">>)
    /\ UNCHANGED <<rEvent, url, cookies, browser, session, page, element, box, clip, shot>>

\* line 65
BundledLaunchOk ==
    /\ UNCHANGED <<scrapeVars, pureVars>>
    /\ rpc = "launchBundled"
    /\ browser' = "bundled"
    /\ session' = "open"
    /\ Goto("newPage", <<"launchBundled.ok">>)
    /\ UNCHANGED <<rEvent, url, cookies, page, element, box, clip, shot>>

BundledLaunchFails ==
    /\ UNCHANGED <<scrapeVars, pureVars>>
    /\ rpc = "launchBundled"
    /\ RenderCatch(<<"launchBundled.fail">>)
    /\ UNCHANGED <<rEvent, url, cookies, browser, session, page, element, box, clip, shot>>

\* lines 74-79
NewPageOk ==
    /\ UNCHANGED <<scrapeVars, pureVars>>
    /\ rpc = "newPage"
    /\ page' = [NoPage EXCEPT !.created = TRUE, !.location = "about:blank"]
    /\ Goto("setUserAgent", <<"newPage.ok">>)
    /\ UNCHANGED <<rEvent, url, cookies, browser, session, element, box, clip, shot>>

NewPageFails ==
    /\ UNCHANGED <<scrapeVars, pureVars>>
    /\ rpc = "newPage"
    /\ RenderCatch(<<"newPage.fail">>)
    /\ UNCHANGED <<rEvent, url, cookies, browser, session, page, element, box, clip, shot>>

\* lines 79-85
SetUserAgentOk ==
    /\ UNCHANGED <<scrapeVars, pureVars>>
    /\ rpc = "setUserAgent"
    /\ Goto("setRequestInterception", <<"setUserAgent.ok">>)
    /\ UNCHANGED <<rEvent, url, cookies, browser, session, page, element, box, clip, shot>>

SetUserAgentFails ==
    /\ UNCHANGED <<scrapeVars, pureVars>>
    /\ rpc = "setUserAgent"
    /\ RenderCatch(<<"setUserAgent.fail">>)
    /\ UNCHANGED <<rEvent, url, cookies, browser, session, page, element, box, clip, shot>>

\* lines 96-104: the call that follows the interception block
AfterInterception(events) ==
    IF NeedsPreload(cookies) THEN Goto("gotoRoot", events) ELSE Goto("gotoTarget", events)

\* lines 85-92
SetRequestInterceptionOk ==
    /\ UNCHANGED <<scrapeVars, pureVars>>
    /\ rpc = "setRequestInterception"
    /\ page' = [page EXCEPT !.intercept = TRUE]
    /\ AfterInterception(<<"setRequestInterception.ok">>)
    /\ UNCHANGED <<rEvent, url, cookies, browser, session, element, box, clip, shot>>

\* line 93: the failure is swallowed
SetRequestInterceptionFails ==
    /\ UNCHANGED <<scrapeVars, pureVars>>
    /\ rpc = "setRequestInterception"
    /\ AfterInterception(<<"setRequestInterception.fail">>)
    /\ UNCHANGED <<rEvent, url, cookies, browser, session, page, element, box, clip, shot>>

\* line 98 resolves; line 99 calls setCookie
GotoRootOk ==
    /\ UNCHANGED <<scrapeVars, pureVars>>
    /\ rpc = "gotoRoot"
    /\ page' = [page EXCEPT !.location = RootUrl]
    /\ Goto(AfterRoot(TRUE), <<"gotoRoot.ok">>)
    /\ UNCHANGED <<rEvent, url, cookies, browser, session, element, box, clip, shot>>

\* line 98 rejects: line 100 swallows it, line 104 navigates to the target
GotoRootFails ==
    /\ UNCHANGED <<scrapeVars, pureVars>>
    /\ rpc = "gotoRoot"
    /\ Goto(AfterRoot(FALSE), <<"gotoRoot.fail">>)
    /\ UNCHANGED <<rEvent, url, cookies, browser, session, page, element, box, clip, shot>>

\* line 99
SetCookieOk ==
    /\ UNCHANGED <<scrapeVars, pureVars>>
    /\ rpc = "setCookie"
    /\ page' = [page EXCEPT !.cookiesSet = TRUE]
    /\ Goto("gotoTarget", <<"setCookie.ok">>)
    /\ UNCHANGED <<rEvent, url, cookies, browser, session, element, box, clip, shot>>

\* line 99 rejects: line 100 swallows it
SetCookieFails ==
    /\ UNCHANGED <<scrapeVars, pureVars>>
    /\ rpc = "setCookie"
    /\ Goto("gotoTarget", <<"setCookie.fail">>)
    /\ UNCHANGED <<rEvent, url, cookies, browser, session, page, element, box, clip, shot>>

\* line 104 resolves, possibly after redirects, with the document loaded; a
\* string that is no URL cannot be navigated to
GotoTargetOk ==
    /\ UNCHANGED <<scrapeVars, pureVars>>
    /\ rpc = "gotoTarget"
    /\ NewURL(url).ok
    /\ \E location \in {url, RenderRedirectUrl}, dom \in Take(Doms, MaxDoms) :
          page' = [page EXCEPT !.location = location, !.dom = dom]
    /\ Goto("addStyleTag", <<"gotoTarget.ok">>)
    /\ UNCHANGED <<rEvent, url, cookies, browser, session, element, box, clip, shot>>

GotoTargetFails ==
    /\ UNCHANGED <<scrapeVars, pureVars>>
    /\ rpc = "gotoTarget"
    /\ RenderCatch(<<"gotoTarget.fail">>)
    /\ UNCHANGED <<rEvent, url, cookies, browser, session, page, element, box, clip, shot>>

\* lines 107-116
AddStyleTagOk ==
    /\ UNCHANGED <<scrapeVars, pureVars>>
    /\ rpc = "addStyleTag"
    /\ Goto("waitForTimeout", <<"addStyleTag.ok">>)
    /\ UNCHANGED <<rEvent, url, cookies, browser, session, page, element, box, clip, shot>>

AddStyleTagFails ==
    /\ UNCHANGED <<scrapeVars, pureVars>>
    /\ rpc = "addStyleTag"
    /\ RenderCatch(<<"addStyleTag.fail">>)
    /\ UNCHANGED <<rEvent, url, cookies, browser, session, page, element, box, clip, shot>>

\* lines 116-121
WaitForTimeoutOk ==
    /\ UNCHANGED <<scrapeVars, pureVars>>
    /\ rpc = "waitForTimeout"
    /\ Goto("query", <<"waitForTimeout.ok">>)
    /\ UNCHANGED <<rEvent, url, cookies, browser, session, page, element, box, clip, shot>>

WaitForTimeoutFails ==
    /\ UNCHANGED <<scrapeVars, pureVars>>
    /\ rpc = "waitForTimeout"
    /\ RenderCatch(<<"waitForTimeout.fail">>)
    /\ UNCHANGED <<rEvent, url, cookies, browser, session, page, element, box, clip, shot>>

\* line 130: page.screenshot is called with the clip there is
Capture(c, events) ==
    /\ clip' = c
    /\ shot' = ShotOf(c)
    /\ Goto("screenshot", events)

\* line 121 resolves; line 123 asks for the box of a match, line 130
\* captures without one
QueryOk ==
    /\ UNCHANGED <<scrapeVars, pureVars>>
    /\ rpc = "query"
    /\ element' = QuerySelector(page.dom, Selectors)
    /\ IF Truthy(element')
       THEN Goto("boundingBox", <<"query.ok">>) /\ UNCHANGED <<clip, shot>>
       ELSE Capture(Null, <<"query.ok">>)
    /\ UNCHANGED <<rEvent, url, cookies, browser, session, page, box>>

\* line 121 rejects: line 128 swallows it
QueryFails ==
    /\ UNCHANGED <<scrapeVars, pureVars>>
    /\ rpc = "query"
    /\ Capture(Null, <<"query.fail">>)
    /\ UNCHANGED <<rEvent, url, cookies, browser, session, page, element, box>>

\* lines 123-130
BoundingBoxOk ==
    /\ UNCHANGED <<scrapeVars, pureVars>>
    /\ rpc = "boundingBox"
    /\ box' = element.v.box
    /\ Capture(ClipOf(element.v.box), <<"boundingBox.ok">>)
    /\ UNCHANGED <<rEvent, url, cookies, browser, session, page, element>>

\* line 123 rejects: line 128 swallows it
BoundingBoxFails ==
    /\ UNCHANGED <<scrapeVars, pureVars>>
    /\ rpc = "boundingBox"
    /\ Capture(Null, <<"boundingBox.fail">>)
    /\ UNCHANGED <<rEvent, url, cookies, browser, session, page, element, box>>

\* line 130 resolves; line 131 calls browser.close()
ScreenshotOk ==
    /\ UNCHANGED <<scrapeVars, pureVars>>
    /\ rpc = "screenshot"
    /\ rpc' = "close"
    /\ closeCalls' = closeCalls + 1
    /\ trace' = trace \o <<"screenshot.ok", "close">>
    /\ UNCHANGED <<rEvent, url, cookies, browser, session, page, element, box, clip, shot,
                   rResponse>>

ScreenshotFails ==
    /\ UNCHANGED <<scrapeVars, pureVars>>
    /\ rpc = "screenshot"
    /\ RenderCatch(<<"screenshot.fail">>)
    /\ UNCHANGED <<rEvent, url, cookies, browser, session, page, element, box, clip, shot>>

\* lines 131-138
CloseOk ==
    /\ UNCHANGED <<scrapeVars, pureVars>>
    /\ rpc = "close"
    /\ session' = "closed"
    /\ RenderReturn(CapturedResponse(url), <<"close.ok">>)
    /\ UNCHANGED <<rEvent, url, cookies, browser, page, element, box, clip, shot>>

\* line 131 rejects: the catch block closes again
CloseFails ==
    /\ UNCHANGED <<scrapeVars, pureVars>>
    /\ rpc = "close"
    /\ RenderCatch(<<"close.fail">>)
    /\ UNCHANGED <<rEvent, url, cookies, browser, session, page, element, box, clip, shot>>

\* lines 140-145
CatchCloseOk ==
    /\ UNCHANGED <<scrapeVars, pureVars>>
    /\ rpc = "catchClose"
    /\ session' = "closed"
    /\ RenderReturn(FailedResponse, <<"catchClose.ok">>)
    /\ UNCHANGED <<rEvent, url, cookies, browser, page, element, box, clip, shot>>

\* line 140: a failing close is swallowed
CatchCloseFails ==
    /\ UNCHANGED <<scrapeVars, pureVars>>
    /\ rpc = "catchClose"
    /\ RenderReturn(FailedResponse, <<"catchClose.fail">>)
    /\ UNCHANGED <<rEvent, url, cookies, browser, session, page, element, box, clip, shot>>

RenderNext ==
    \/ RenderEnter
    \/ LocalLaunchOk
    \/ LocalLaunchFails
    \/ ExecutablePathOk
    \/ ExecutablePathFails
    \/ BundledLaunchOk
    \/ BundledLaunchFails
    \/ NewPageOk
    \/ NewPageFails
    \/ SetUserAgentOk
    \/ SetUserAgentFails
    \/ SetRequestInterceptionOk
    \/ SetRequestInterceptionFails
    \/ GotoRootOk
    \/ GotoRootFails
    \/ SetCookieOk
    \/ SetCookieFails
    \/ GotoTargetOk
    \/ GotoTargetFails
    \/ AddStyleTagOk
    \/ AddStyleTagFails
    \/ WaitForTimeoutOk
    \/ WaitForTimeoutFails
    \/ QueryOk
    \/ QueryFails
    \/ BoundingBoxOk
    \/ BoundingBoxFails
    \/ ScreenshotOk
    \/ ScreenshotFails
    \/ CloseOk
    \/ CloseFails
    \/ CatchCloseOk
    \/ CatchCloseFails

RenderSpec == RenderInit /\ [][RenderNext]_vars

-----------------------------------------------------------------------------
(* screenshot-post: properties *)

\* the positions of an event in the trace
Idx(e) == {i \in 1..Len(trace) : trace[i] = e}
Happened(e) == Idx(e) # {}
Earlier(i, es) == \E j \in 1..(i - 1) : trace[j] \in es

\* C3: on every exit path after a browser session has been launched, a close
\* of that session has been attempted before the response is returned; no
\* response is returned while a launched session is open with no close
\* attempted.
C3_CloseAttemptedBeforeReturn ==
    rResponse.returned /\ session # "none" =>
        /\ closeCalls >= 1
        /\ Happened("close") \/ Happened("catchClose")

\* a run that launched a session, failed at the target navigation and answered
C3_Witness ==
    /\ rResponse.returned
    /\ rResponse.statusCode = 500
    /\ session # "none"
    /\ Happened("gotoTarget.fail")

\* C8, as claimed: with at least one cookie record, setCookie has completed
\* before the target navigation starts.
C8_CookiesAppliedBeforeTarget ==
    Len(cookies) > 0 =>
        \A i \in Idx("gotoTarget") : Earlier(i, {"setCookie.ok"})

\* C8, amended: with at least one cookie record, the target navigation starts
\* only after the preload has ended: the root navigation was attempted first,
\* and it failed, or setCookie was invoked after it and has completed or
\* failed. A failed preload is swallowed and the target is navigated to
\* without the cookies.
C8_TargetAfterPreloadEnded ==
    Len(cookies) > 0 =>
        \A i \in Idx("gotoTarget") :
            /\ Earlier(i, {"gotoRoot"})
            /\ Earlier(i, {"gotoRoot.fail", "setCookie.ok", "setCookie.fail"})
            /\ Earlier(i, {"gotoRoot.ok"}) => Earlier(i, {"setCookie"})
            /\ page.cookiesSet <=> Happened("setCookie.ok")

\* cookies present, the root navigation failed, the target was navigated to
C8_Witness ==
    /\ Len(cookies) > 0
    /\ Happened("gotoRoot.fail")
    /\ Happened("gotoTarget.ok")
    /\ ~page.cookiesSet

\* C9: with cookie records present the root is navigated to before the cookies
\* are applied and the cookies before the target is navigated to; setCookie is
\* never invoked before the root navigation has completed and never after the
\* target navigation has started.
C9_RootThenCookiesThenTarget ==
    /\ \A i \in Idx("setCookie") :
          /\ Len(cookies) > 0
          /\ Earlier(i, {"gotoRoot.ok"})
          /\ ~Earlier(i, {"gotoTarget"})
    /\ \A i \in Idx("gotoRoot") : Len(cookies) > 0 /\ ~Earlier(i, {"setCookie", "gotoTarget"})
    /\ Len(cookies) > 0 => \A i \in Idx("gotoTarget") : Earlier(i, {"gotoRoot"})
    /\ Cardinality(Idx("setCookie")) <= 1

\* the three steps have all been taken
C9_Witness ==
    /\ Happened("gotoRoot.ok")
    /\ Happened("setCookie.ok")
    /\ Happened("gotoTarget")
    /\ page.cookiesSet

\* no match, no box, a box without area, or a query that threw
NoValidBox ==
    \/ ~Truthy(element)
    \/ ~Truthy(box)
    \/ box.v.width <= 0
    \/ box.v.height <= 0

DetectionEnded ==
    \/ Happened("query.fail")
    \/ Happened("query.ok") /\ ~Truthy(element)
    \/ Happened("boundingBox.ok")
    \/ Happened("boundingBox.fail")

\* C10: if no selector matches, the match has no box or a box of non-positive
\* width or height, or the detection throws, the clip is absent and the
\* capture is of the full page; fullPage is true exactly when the clip is
\* absent; a detection failure is followed by the capture, never by an error
\* response.
C10_DetectionFallsBackToFullPage ==
    /\ DetectionEnded => shot.called
    /\ shot.called =>
          /\ shot.fullPage <=> clip = Null
          /\ shot.clip = (IF clip = Null THEN Undefined ELSE clip)
          /\ NoValidBox => clip = Null /\ shot.fullPage
    /\ \A i \in Idx("query.fail") \cup Idx("boundingBox.fail") :
          i < Len(trace) /\ trace[i + 1] = "screenshot"

\* the match had a box of no width and the full page was captured and returned
C10_Witness ==
    /\ Truthy(box)
    /\ box.v.width <= 0
    /\ shot.called
    /\ shot.fullPage
    /\ rResponse.returned
    /\ rResponse.statusCode = 200

-----------------------------------------------------------------------------
(* screenshot-post: the request URL *)

\* C11: a request whose url is missing or unparsable is answered at once as
\* invalid input: no browser session is launched, no navigation is made, and
\* the response is the invalid-input response.
C11_InvalidUrlNeverLaunches ==
    rpc # "idle" /\ rEvent.httpMethod = "POST" /\ ~NewURL(RequestedUrl(rEvent)).ok =>
        /\ session = "none"
        /\ ~Happened("gotoTarget")
        /\ rResponse.returned => rResponse = BadRequestResponse

-----------------------------------------------------------------------------
(* extractMeta: the calls the model draws *)

\* how many of the contents listed for a tag are drawn
MaxMetaValues == 2

\* a tag of the document: absent, or present with the content written in the
\* HTML (raw) and the text that content stands for (text)
Absent == [present |-> FALSE, raw |-> "", text |-> ""]
V(raw, text) == [present |-> TRUE, raw |-> raw, text |-> text]

\* an og:image tag: final is the absolute address the content stands for,
\* seen from ExtractBaseUrl, the proxied original for a safe_image address
ImageV(raw, text, final) == [present |-> TRUE, raw |-> raw, text |-> text, final |-> final]

ExtractBaseUrl == "https://www.facebook.com/somepage/posts/123"

SiteNames == <<V("Site", "Site")>>
OgTitles == <<V("A &amp; B", "A & B"), V("", "")>>
Titles == <<V("T &lt;1&gt;", "T <1>")>>
OgDescs == <<V("D &quot;q&quot;", "D \"q\""), V("", "")>>
TwDescs == <<V("TW", "TW")>>
MetaDescs == <<V("M&#39;s", "M's")>>
OgImages ==
    <<ImageV("/i.jpg", "/i.jpg", "https://www.facebook.com/i.jpg"),
      ImageV("https://external.xx.fbcdn.net/safe_image.php?d=1&amp;url=https%3A%2F%2Fcdn.example.com%2Fp.jpg",
             "https://external.xx.fbcdn.net/safe_image.php?d=1&url=https%3A%2F%2Fcdn.example.com%2Fp.jpg",
             "https://cdn.example.com/p.jpg"),
      ImageV("https://cdn.example.com/q.jpg", "https://cdn.example.com/q.jpg",
             "https://cdn.example.com/q.jpg")>>
Imgs == <<V("/a.jpg", "https://www.facebook.com/a.jpg")>>

Drawn(values) == {Absent} \cup Take(values, MaxMetaValues)

MetaArgs ==
    [site : Drawn(SiteNames), ogTitle : Drawn(OgTitles), title : Drawn(Titles),
     ogDesc : Drawn(OgDescs), twDesc : Drawn(TwDescs), metaDesc : Drawn(MetaDescs),
     ogImage : Drawn(OgImages), img : Drawn(Imgs)]

MetaTag(attr, key, v) ==
    IF v.present
    THEN "<meta " \o attr \o "=\"" \o key \o "\" content=\"" \o v.raw \o "\">"
    ELSE ""

TitleTag(v) == IF v.present THEN "<title>" \o v.raw \o "</title>" ELSE ""

ImgTag(v) == IF v.present THEN "<img class=\"p\" src=\"" \o v.raw \o "\">" ELSE ""

\* the document with the tags of a
HtmlOf(a) ==
    "<html><head>" \o TitleTag(a.title)
    \o MetaTag("name", "description", a.metaDesc)
    \o MetaTag("name", "twitter:description", a.twDesc)
    \o MetaTag("property", "og:description", a.ogDesc)
    \o MetaTag("property", "og:title", a.ogTitle)
    \o MetaTag("property", "og:site_name", a.site)
    \o MetaTag("property", "og:image", a.ogImage)
    \o "</head><body>" \o ImgTag(a.img) \o "</body></html>"

ExtractInit ==
    /\ fnPc = "call"
    /\ fnArg \in MetaArgs
    /\ fnOut = <<>>
    /\ event = <<>>
    /\ spc = "idle"
    /\ candidates = <<>>
    /\ ci = 0
    /\ ui = 0
    /\ tried = <<>>
    /\ html = ""
    /\ finalUrl = ""
    /\ timerArmed = FALSE
    /\ fres = NoFres
    /\ res = NullResult
    /\ attempts = <<>>
    /\ extractArgs = NoExtract
    /\ response = NoResponse
    /\ rEvent = <<>>
    /\ rpc = "idle"
    /\ url = ""
    /\ cookies = <<>>
    /\ browser = "null"
    /\ session = "none"
    /\ closeCalls = 0
    /\ page = NoPage
    /\ element = Undefined
    /\ box = Undefined
    /\ clip = Null
    /\ shot = NoShot
    /\ trace = <<>>
    /\ rResponse = NoResponse

\* extractMeta(html, baseUrl) is called and returns
ExtractMetaCall ==
    /\ fnPc = "call"
    /\ fnPc' = "done"
    /\ fnOut' = extractMeta(HtmlOf(fnArg), ExtractBaseUrl)
    /\ UNCHANGED <<scrapeVars, renderVars, fnArg>>

ExtractNext == ExtractMetaCall

ExtractSpec == ExtractInit /\ [][ExtractNext]_vars

-----------------------------------------------------------------------------
(* extractMeta: properties *)

Extracted == fnPc = "done" /\ "ogImage" \in DOMAIN fnArg

\* og:title, og:description and og:image are present with content
HasOgTriple ==
    /\ fnArg.ogTitle.text # ""
    /\ fnArg.ogDesc.text # ""
    /\ fnArg.ogImage.present

FirstNonEmpty(a, b, c) == IF a # "" THEN a ELSE IF b # "" THEN b ELSE c

\* C12, as claimed: with og:title, og:description and og:image present, name,
\* caption and image are exactly the entity-decoded contents of those three
\* tags, whatever other tags the document holds.
C12_OgTripleReturnedExactly ==
    Extracted /\ HasOgTriple =>
        /\ fnOut.name = fnArg.ogTitle.text
        /\ fnOut.caption = fnArg.ogDesc.text
        /\ fnOut.image = fnArg.ogImage.text

\* C12, amended: with og:title, og:description and og:image present with
\* content, caption is the decoded og:description, name is the decoded
\* og:site_name when that tag has content and the decoded og:title otherwise,
\* and image is the og:image content made absolute against the base URL, or
\* the original address when it is a safe_image proxy address; ogTitle and
\* ogDesc carry the decoded contents; the <title> text and the <img> tags
\* decide none of name, caption and image.
C12_OgTripleWithSiteNameAndAbsoluteImage ==
    Extracted /\ HasOgTriple =>
        /\ fnOut.name = (IF fnArg.site.text # "" THEN fnArg.site.text ELSE fnArg.ogTitle.text)
        /\ fnOut.caption = fnArg.ogDesc.text
        /\ fnOut.image = fnArg.ogImage.final
        /\ fnOut.ogTitle = fnArg.ogTitle.text
        /\ fnOut.ogDesc = fnArg.ogDesc.text

\* all three present next to a <title>, an <img> and an og:site_name
C12_Witness ==
    /\ Extracted
    /\ HasOgTriple
    /\ fnArg.title.present
    /\ fnArg.img.present
    /\ fnArg.site.present
    /\ fnOut.name = "Site"
    /\ fnOut.caption = "D \"q\""
    /\ fnOut.image = "https://cdn.example.com/p.jpg"

\* C13: name is the first non-empty of og:site_name, og:title and the <title>
\* text, caption the first non-empty of og:description, twitter:description
\* and the generic description, each entity-decoded; a field none of whose
\* sources has content is the empty string.
C13_NameAndCaptionPrecedence ==
    Extracted =>
        /\ fnOut.name = FirstNonEmpty(fnArg.site.text, fnArg.ogTitle.text, fnArg.title.text)
        /\ fnOut.caption =
              FirstNonEmpty(fnArg.ogDesc.text, fnArg.twDesc.text, fnArg.metaDesc.text)
        /\ fnOut.rawTitle = fnArg.title.text

\* an empty og:title gives way to the <title> text, an empty og:description
\* to the Twitter description
C13_Witness ==
    /\ Extracted
    /\ ~fnArg.site.present
    /\ fnArg.ogTitle.present /\ fnArg.ogTitle.text = ""
    /\ fnArg.ogDesc.present /\ fnArg.ogDesc.text = ""
    /\ fnArg.metaDesc.present
    /\ fnOut.name = "T <1>"
    /\ fnOut.caption = "TW"

-----------------------------------------------------------------------------
(* parseCookies: the calls the model draws *)

\* how many cookies a well-formed input holds at most, and how many of the
\* cookie names are drawn
MaxCookies == 2
MaxCookieNames == 2

CookieNames == <<"a", "c_user", "xs">>
CookieValues == {"b", "1"}

CookiePairs == [name : Take(CookieNames, MaxCookieNames), value : CookieValues]

PairLists == UNION {[1..n -> CookiePairs] : n \in 1..MaxCookies}

\* the three forms of a list of name/value pairs: the array of records, its
\* JSON text, the header string
ArrayOf(pairs) ==
    Arr([i \in 1..Len(pairs) |-> Obj([name |-> Str(pairs[i].name),
                                      value |-> Str(pairs[i].value)])])

RECURSIVE JoinPairs(_, _, _, _, _, _)
JoinPairs(pairs, i, open, mid, close, sep) ==
    IF i > Len(pairs) THEN ""
    ELSE open \o pairs[i].name \o mid \o pairs[i].value \o close
         \o (IF i < Len(pairs) THEN sep ELSE "")
         \o JoinPairs(pairs, i + 1, open, mid, close, sep)

\* JSON.stringify of the array of records
JsonOf(pairs) == "[" \o JoinPairs(pairs, 1, NamePre, ValuePre, "\"}", ",") \o "]"

HeaderOf(pairs) == JoinPairs(pairs, 1, "", "=", "", "; ")

CookieArg(form, pairs, input, malformed) ==
    [form |-> form, pairs |-> pairs, input |-> input, malformed |-> malformed]

WellFormedCookieArgs ==
    {CookieArg("array", p, ArrayOf(p), FALSE) : p \in PairLists}
    \cup {CookieArg("json", p, Str(JsonOf(p)), FALSE) : p \in PairLists}
    \cup {CookieArg("header", p, Str(HeaderOf(p)), FALSE) : p \in PairLists}

\* inputs of no form, malformed or not
OtherCookieArgs ==
    {CookieArg("other", <<>>, Undefined, FALSE),
     CookieArg("other", <<>>, Str(""), FALSE),
     CookieArg("other", <<>>, Str("   "), FALSE),
     CookieArg("other", <<>>, Str("[]"), FALSE),
     CookieArg("other", <<>>, Str(" a = b ;; xs=1=2 "), FALSE),
     CookieArg("other", <<>>, Str("=x; a=b"), FALSE),
     CookieArg("other", <<>>, Arr(<<Obj([name |-> Str("  "), value |-> Str("x")]),
                                   Obj([name |-> Str(" a "), value |-> Num(1)])>>), FALSE),
     CookieArg("other", <<>>, Str("[bad"), TRUE),
     CookieArg("other", <<>>, Str("[{\"name\":\"a\",\"value\":\"b\"},]"), TRUE),
     CookieArg("other", <<>>, Str("[null]"), TRUE),
     CookieArg("other", <<>>, Str("noeq"), TRUE),
     CookieArg("other", <<>>, Arr(<<Null>>), TRUE),
     CookieArg("other", <<>>, Arr(<<Obj([name |-> Str("a"), value |-> Str("b")]), Undefined>>),
               TRUE),
     CookieArg("other", <<>>, Arr(<<Num(5), Str("a=b")>>), TRUE),
     CookieArg("other", <<>>, Num(5), TRUE),
     CookieArg("other", <<>>, Bool(TRUE), TRUE),
     CookieArg("other", <<>>, Obj([name |-> Str("a"), value |-> Str("b")]), TRUE)}

CookieArgs == WellFormedCookieArgs \cup OtherCookieArgs

CookieInit ==
    /\ fnPc = "call"
    /\ fnArg \in CookieArgs
    /\ fnOut = <<>>
    /\ event = <<>>
    /\ spc = "idle"
    /\ candidates = <<>>
    /\ ci = 0
    /\ ui = 0
    /\ tried = <<>>
    /\ html = ""
    /\ finalUrl = ""
    /\ timerArmed = FALSE
    /\ fres = NoFres
    /\ res = NullResult
    /\ attempts = <<>>
    /\ extractArgs = NoExtract
    /\ response = NoResponse
    /\ rEvent = <<>>
    /\ rpc = "idle"
    /\ url = ""
    /\ cookies = <<>>
    /\ browser = "null"
    /\ session = "none"
    /\ closeCalls = 0
    /\ page = NoPage
    /\ element = Undefined
    /\ box = Undefined
    /\ clip = Null
    /\ shot = NoShot
    /\ trace = <<>>
    /\ rResponse = NoResponse

\* parseCookies(input) is called and returns or throws
ParseCookiesCall ==
    /\ fnPc = "call"
    /\ fnPc' = "done"
    /\ fnOut' = parseCookiesOutcome(fnArg.input)
    /\ UNCHANGED <<scrapeVars, renderVars, fnArg>>

\* the list parseCookies returned, as the array handed to the next call
ArrayOfRecords(list) == Arr([i \in 1..Len(list) |-> Obj(list[i])])

\* parseCookies is called on the list the first call returned
ParseCookiesAgainCall ==
    /\ fnPc = "done"
    /\ "form" \in DOMAIN fnArg
    /\ ~fnOut.threw
    /\ fnPc' = "again"
    /\ fnOut' = [first |-> fnOut.value,
                 second |-> parseCookiesOutcome(ArrayOfRecords(fnOut.value))]
    /\ UNCHANGED <<scrapeVars, renderVars, fnArg>>

CookieNext == ParseCookiesCall \/ ParseCookiesAgainCall

CookieSpec == CookieInit /\ [][CookieNext]_vars

-----------------------------------------------------------------------------
(* parseCookies: properties *)

Parsed == fnPc = "done" /\ "form" \in DOMAIN fnArg

CookieFields == {"name", "value", "domain", "path", "httpOnly", "secure", "sameSite"}

\* C14: the array of records, its JSON text and the equivalent header string
\* parse to the same cookie records: the same names and values and the same
\* fields domain, path, httpOnly, secure and sameSite with the same defaults.
C14_CookieFormsAgree ==
    Parsed /\ fnArg.form \in {"array", "json", "header"} =>
        /\ ~fnOut.threw
        /\ Len(fnOut.value) = Len(fnArg.pairs)
        /\ fnOut.value = parseCookies(ArrayOf(fnArg.pairs))
        /\ \A i \in 1..Len(fnOut.value) :
              /\ DOMAIN fnOut.value[i] = CookieFields
              /\ fnOut.value[i].name = Str(fnArg.pairs[i].name)
              /\ fnOut.value[i].value = Str(fnArg.pairs[i].value)

\* C15: parseCookies never throws; it returns a list for every input, the
\* empty list for a malformed one.
C15_ParseCookiesNeverThrows ==
    Parsed =>
        /\ ~fnOut.threw
        /\ DOMAIN fnOut.value = 1..Len(fnOut.value)
        /\ fnArg.malformed => fnOut.value = <<>>

\* an array whose entry is null, on reading whose name sanitizeCookiesArray
\* throws
C15_Witness ==
    /\ Parsed
    /\ fnArg.input = Arr(<<Null>>)
    /\ sanitizeCookiesArray(fnArg.input).threw
    /\ fnOut = NoThrow(<<>>)

\* C18: every record parseCookies returns has a name that is non-empty after
\* trimming, whatever the form of the input.
C18_CookieNamesNonEmpty ==
    Parsed =>
        \A i \in 1..Len(fnOut.value) :
            /\ fnOut.value[i].name.t = "string"
            /\ Trim(fnOut.value[i].name.v) # ""

-----------------------------------------------------------------------------
(* screenshot-post: the response *)

\* C16: on success the response carries, next to the image, the URL the page
\* ended on after mirror substitution and redirects.
C16_ResponseCarriesFinalUrl ==
    rpc = "done" /\ rEvent.httpMethod = "POST" /\ rResponse.statusCode = 200 =>
        rResponse.body.url = Str(page.location)

-----------------------------------------------------------------------------
(* fb-scrape: the end-to-end scenario *)

ScenarioCandidates ==
    <<"https://www.facebook.com/somepage/posts/123",
      "https://m.facebook.com/somepage/posts/123",
      "https://mbasic.facebook.com/somepage/posts/123">>

\* the request for https://www.facebook.com/somepage/posts/123, past its entry
ScenarioRun ==
    /\ spc \in {"awaitFetch", "awaitText", "done"}
    /\ event.httpMethod = "POST"
    /\ event.body = BodyJson(Obj([url |-> Str(UrlInputs[1])]))

\* the first attempt met a login wall and the n-th attempt succeeded with the
\* document that carries the og tags
WallThenOgAt(n) ==
    /\ spc = "done"
    /\ Len(attempts) = n
    /\ attempts[1].wall
    /\ attempts[n].usable
    /\ extractArgs.html = OgHtml

\* the metadata of OgHtml seen from the final URL
OgMetadataReturned ==
    /\ IsOk(response)
    /\ response.body.finalUrl = Str(finalUrl)
    /\ response.body.name = Str("A & B")
    /\ response.body.caption = Str("D")
    /\ response.body.imageUrl = Str(NewURL(finalUrl).origin \o "/i.jpg")

\* C17, as claimed: for https://www.facebook.com/somepage/posts/123 the
\* candidates are the www, m and mbasic hosts in that order; when the first
\* attempt returns a login wall and the second succeeds with valid og tags,
\* the response has ok:true, a finalUrl on m.facebook.com and the metadata of
\* that second response.
C17_SecondAttemptOnMobileHost ==
    ScenarioRun =>
        /\ candidates = ScenarioCandidates
        /\ WallThenOgAt(2) =>
              /\ OgMetadataReturned
              /\ NewURL(finalUrl).host = MobileHost

\* C17, amended: the candidates are the www, m and mbasic hosts in that order;
\* the second attempt is the www candidate again, under the identity fb. When
\* the first attempt returns a login wall and the second succeeds with valid
\* og tags, the response has ok:true, the metadata of that response and as
\* finalUrl that response's URL: the www candidate, unless the response was
\* redirected. finalUrl is the m.facebook.com candidate when the third
\* attempt is the one that succeeds.
C17_SecondAttemptIsSecondIdentity ==
    ScenarioRun =>
        /\ candidates = ScenarioCandidates
        /\ WallThenOgAt(2) =>
              /\ OgMetadataReturned
              /\ tried = <<TriedEntry(ScenarioCandidates[1], "chrome"),
                           TriedEntry(ScenarioCandidates[1], "fb")>>
              /\ finalUrl \in {ScenarioCandidates[1], RedirectUrl}
              /\ finalUrl = OrS(res.url, ScenarioCandidates[1])
        /\ WallThenOgAt(3) =>
              /\ OgMetadataReturned
              /\ tried[3] = TriedEntry(ScenarioCandidates[2], "chrome")
              /\ finalUrl = OrS(res.url, ScenarioCandidates[2])

\* a login wall, then success under the identity fb with no redirect
C17_Witness ==
    /\ ScenarioRun
    /\ WallThenOgAt(2)
    /\ IsOk(response)
    /\ finalUrl = ScenarioCandidates[1]

-----------------------------------------------------------------------------
(* screenshot-post: the region captured *)

\* the match has a box of positive width and height and the capture was asked
ClippedCapture ==
    /\ shot.called
    /\ Truthy(element)
    /\ Truthy(box)
    /\ box.v.width > 0
    /\ box.v.height > 0

\* C19, as claimed: the clip is the box grown by exactly 8 pixels on each of
\* its four sides, wherever the box lies.
C19_ClipIsBoxGrownByEight ==
    ClippedCapture =>
        /\ clip # Null
        /\ clip.v.x = box.v.x - 8
        /\ clip.v.y = box.v.y - 8
        /\ clip.v.x + clip.v.width = box.v.x + box.v.width + 8
        /\ clip.v.y + clip.v.height = box.v.y + box.v.height + 8

\* C19, amended: the clip has its corner 8 pixels above and left of the box's
\* corner but never at a negative coordinate, and is 16 pixels wider and
\* higher than the box; each edge lies exactly 8 pixels outside the box when
\* the box's x and y are at least 8, and the clip always contains the box
\* grown by 8 pixels and cut at the page's origin.
C19_ClipIsBoxGrownAndClamped ==
    ClippedCapture =>
        /\ clip # Null
        /\ shot.clip = clip
        /\ clip.v.x = (IF box.v.x >= 8 THEN box.v.x - 8 ELSE 0)
        /\ clip.v.y = (IF box.v.y >= 8 THEN box.v.y - 8 ELSE 0)
        /\ clip.v.width = box.v.width + 16
        /\ clip.v.height = box.v.height + 16
        /\ box.v.x >= 8 => clip.v.x + clip.v.width = box.v.x + box.v.width + 8
        /\ box.v.y >= 8 => clip.v.y + clip.v.height = box.v.y + box.v.height + 8
        /\ clip.v.x + clip.v.width >= box.v.x + box.v.width + 8
        /\ clip.v.y + clip.v.height >= box.v.y + box.v.height + 8

\* a box nearer than 8 pixels to the page's origin
C19_Witness ==
    /\ ClippedCapture
    /\ box = Box(3, 5, 100, 50)
    /\ clip = Box(0, 0, 116, 66)
    /\ rResponse.statusCode = 200

\* the selector list in the order written
SelectorList ==
    <<"article", "#m_story_permalink_view", ".userContentWrapper", "[data-ft]",
      "[role=\"main\"]">>

\* the places in SelectorList of the patterns some element of dom matches
MatchedPatterns(dom) ==
    {k \in 1..Len(SelectorList) :
        \E i \in 1..Len(dom) : SelectorList[k] \in dom[i].v.matches}

\* C20: when elements of the page match several patterns, the element chosen
\* matches the earliest of these patterns in the list, wherever the elements
\* lie in the document.
C20_EarliestPatternWins ==
    Happened("query.ok") /\ Truthy(element) =>
        SelectorList[Min(MatchedPatterns(page.dom))] \in element.v.matches

-----------------------------------------------------------------------------
(* extractImageFallback on documents of several <img> elements *)

MaxImgs == 3
MaxImgSrcs == 5

\* an image source as written in the document: keep tells whether the loop of
\* lines 258-269 keeps it, final is the address it stands for seen from
\* ExtractBaseUrl, the proxied original for a safe_image address
ImgSrc(raw, keep, final) == [raw |-> raw, keep |-> keep, final |-> final]

ImgSrcs ==
    <<ImgSrc("/a.jpg", TRUE, "https://www.facebook.com/a.jpg"),
      ImgSrc("https://external.xx.fbcdn.net/safe_image.php?url=https%3A%2F%2Fcdn.example.com%2Fp.jpg",
             TRUE, "https://cdn.example.com/p.jpg"),
      ImgSrc("data:image/gif;base64,AA", FALSE, ""),
      ImgSrc("/img/pixel.gif", FALSE, ""),
      ImgSrc("/logo.svg?v=2", FALSE, ""),
      ImgSrc("https://cdn.example.com/q.jpg", TRUE, "https://cdn.example.com/q.jpg")>>

ImgLists == UNION {[1..n -> Take(ImgSrcs, MaxImgSrcs)] : n \in 0..MaxImgs}

RECURSIVE ImgTags(_, _)
ImgTags(imgs, i) ==
    IF i > Len(imgs) THEN ""
    ELSE "<img class=\"p\" src=\"" \o imgs[i].raw \o "\">" \o ImgTags(imgs, i + 1)

\* the document whose body holds the images of imgs, in this order
HtmlOfImgs(imgs) == "<html><head></head><body>" \o ImgTags(imgs, 1) \o "</body></html>"

FallbackInit ==
    /\ fnPc = "call"
    /\ fnArg \in {[imgs |-> l] : l \in ImgLists}
    /\ fnOut = <<>>
    /\ event = <<>>
    /\ spc = "idle"
    /\ candidates = <<>>
    /\ ci = 0
    /\ ui = 0
    /\ tried = <<>>
    /\ html = ""
    /\ finalUrl = ""
    /\ timerArmed = FALSE
    /\ fres = NoFres
    /\ res = NullResult
    /\ attempts = <<>>
    /\ extractArgs = NoExtract
    /\ response = NoResponse
    /\ rEvent = <<>>
    /\ rpc = "idle"
    /\ url = ""
    /\ cookies = <<>>
    /\ browser = "null"
    /\ session = "none"
    /\ closeCalls = 0
    /\ page = NoPage
    /\ element = Undefined
    /\ box = Undefined
    /\ clip = Null
    /\ shot = NoShot
    /\ trace = <<>>
    /\ rResponse = NoResponse

\* extractImageFallback(html, baseUrl) is called and returns
ExtractImageFallbackCall ==
    /\ fnPc = "call"
    /\ fnPc' = "done"
    /\ fnOut' = extractImageFallback(HtmlOfImgs(fnArg.imgs), ExtractBaseUrl)
    /\ UNCHANGED <<scrapeVars, renderVars, fnArg>>

FallbackNext == ExtractImageFallbackCall

FallbackSpec == FallbackInit /\ [][FallbackNext]_vars

\* the images of the list the loop keeps, by place
Qualifying(imgs) == {i \in 1..Len(imgs) : imgs[i].keep}

\* C21: extractImageFallback returns the first image of the document, in
\* document order, that is no data URI, no tracking pixel or spacer and no
\* SVG, with the proxy unwrapped, and the empty string when there is none: a
\* later qualifying image is never preferred to an earlier one.
C21_FirstQualifyingImageWins ==
    fnPc = "done" /\ "imgs" \in DOMAIN fnArg =>
        fnOut = (IF Qualifying(fnArg.imgs) = {} THEN ""
                 ELSE fnArg.imgs[Min(Qualifying(fnArg.imgs))].final)

-----------------------------------------------------------------------------
(* parseCookies applied to its own result *)

\* C22: parsing the list parseCookies returned gives the same list again, for
\* an array, a JSON string and a header string alike: no record and no field
\* is added, dropped or changed.
C22_ParseCookiesIdempotent ==
    fnPc = "again" =>
        /\ ~fnOut.second.threw
        /\ fnOut.second.value = fnOut.first

-----------------------------------------------------------------------------
(* fb-scrape: an attempt that fails *)

\* the attempt in flight ends without a usable result: the fetch rejects, the
\* abort timer fires, or reading the body fails
AttemptFails == FetchRejects \/ FetchTimesOut \/ TextFails

\* what the handler does after an attempt that did not qualify: the next pair
\* of the candidate x identity product is tried, or, after the last pair, the
\* trail is reported as fetch-failed
ProceedsToNextPair ==
    /\ Len(attempts') = Len(attempts) + 1
    /\ ~attempts'[Len(attempts')].usable
    /\ ~attempts'[Len(attempts')].wall
    /\ ~extractArgs'.called
    /\ IF Len(tried) < Len(AllPairs)
       THEN /\ tried' = Append(tried, PairEntry(Len(tried) + 1))
            /\ spc' = "awaitFetch"
            /\ ~response'.returned
       ELSE /\ tried' = tried
            /\ HasReason(response', "fetch-failed")
            /\ response'.statusCode = 200

\* C23: a fetch attempt that fails by a network error, by its timeout or while
\* its body is read ends as a non-successful outcome: the loop goes on with
\* the next candidate/identity pair, or reports fetch-failed after the last
\* one, and the handler never returns reason 'exception' once an attempt was
\* made.
C23_FailedAttemptDegrades ==
    /\ [][AttemptFails => ProceedsToNextPair]_vars
    /\ [](HasReason(response, "exception") => attempts = <<>> /\ tried = <<>>)

\* every pair was tried and every attempt failed: the first by a rejected or
\* timed-out fetch, and the answer is fetch-failed
C23_Witness ==
    /\ HasReason(response, "fetch-failed")
    /\ Len(attempts) = Len(AllPairs)
    /\ Len(attempts) > 1
    /\ \A i \in 1..Len(attempts) : ~attempts[i].clear /\ ~attempts[i].wall
    /\ res = NullResult

-----------------------------------------------------------------------------
(* screenshot-post: the choice of the engine *)

\* the request gets as far as the choice of the engine
EngineNeeded ==
    /\ rpc \notin {"idle", "start"}
    /\ rEvent.httpMethod = "POST"
    /\ RequestedUrl(rEvent) # ""

\* outside the sandbox, the local engine's module is missing or its launch
\* has failed
LocalUnavailable ==
    /\ ~rEvent.env.onLambda
    /\ ~rEvent.env.localInstalled \/ Happened("launchLocal.fail")

\* the failures that reach the handler's catch block from the bundled launch on
BundledOrLaterFailures ==
    {"executablePath.fail", "launchBundled.fail", "newPage.fail", "setUserAgent.fail",
     "gotoTarget.fail", "addStyleTag.fail", "waitForTimeout.fail", "screenshot.fail",
     "close.fail"}

\* C24: outside the sandbox, when the local engine is unavailable (no module,
\* or its launch fails) the bundled engine is launched instead and the local
\* failure is not surfaced: an error response comes only from a failure of
\* the bundled launch or of a later step. Inside the sandbox the local engine
\* is never attempted.
C24_LocalEngineIsPureFallback ==
    /\ EngineNeeded /\ rEvent.env.onLambda =>
          /\ ~Happened("launchLocal")
          /\ browser # "local"
          /\ Happened("executablePath")
    /\ EngineNeeded /\ LocalUnavailable /\ rpc # "launchLocal" =>
          /\ Happened("executablePath")
          /\ browser # "local"
          /\ Happened("executablePath.ok") => Happened("launchBundled")
          /\ Happened("launchBundled.ok") => browser = "bundled"
          /\ rResponse.returned /\ rResponse.statusCode # 200 =>
                \E i \in 1..Len(trace) : trace[i] \in BundledOrLaterFailures

\* the local launch failed and the capture was made with the bundled engine
C24_Witness ==
    /\ Happened("launchLocal.fail")
    /\ browser = "bundled"
    /\ rResponse.returned
    /\ rResponse.statusCode = 200
    /\ shot.called

-----------------------------------------------------------------------------
(* screenshot-post: the request listener of lines 85-91 *)

MaxRequests == 3
MaxResourceTypes == 8

\* req.resourceType() of the requests a page issues
ResourceTypes ==
    <<"document", "script", "image", "stylesheet", "font", "media", "other", "xhr", "fetch",
      "websocket">>

\* a faulty variant: the listener does not return after req.abort()
onRequestFallsThrough(type) ==
    IF type = "image" \/ type = "font" \/ type = "media" \/ type = "stylesheet"
       \/ type = "other"
    THEN [abort |-> 1, continue |-> 1]
    ELSE [abort |-> 0, continue |-> 1]

\* lines 86-90: the calls the listener makes on a request of this type
onRequest(type) ==
    IF type = "image" \/ type = "font" \/ type = "media" \/ type = "stylesheet"
       \/ type = "other"
    THEN [abort |-> 1, continue |-> 0]
    ELSE [abort |-> 0, continue |-> 1]

\* an intercepted request after the listener returned
Handled(type, calls) == [type |-> type, abort |-> calls.abort, continue |-> calls.continue]

\* the page exists, line 84 is about to be called
InterceptInit ==
    /\ fnPc = "setRequestInterception"
    /\ fnArg = <<>>
    /\ fnOut = <<>>
    /\ event = <<>>
    /\ spc = "idle"
    /\ candidates = <<>>
    /\ ci = 0
    /\ ui = 0
    /\ tried = <<>>
    /\ html = ""
    /\ finalUrl = ""
    /\ timerArmed = FALSE
    /\ fres = NoFres
    /\ res = NullResult
    /\ attempts = <<>>
    /\ extractArgs = NoExtract
    /\ response = NoResponse
    /\ rEvent = <<>>
    /\ rpc = "idle"
    /\ url = ""
    /\ cookies = <<>>
    /\ browser = "null"
    /\ session = "none"
    /\ closeCalls = 0
    /\ page = [NoPage EXCEPT !.created = TRUE]
    /\ element = Undefined
    /\ box = Undefined
    /\ clip = Null
    /\ shot = NoShot
    /\ trace = <<>>
    /\ rResponse = NoResponse

\* line 84 resolves and line 85 registers the listener
InterceptionOn ==
    /\ fnPc = "setRequestInterception"
    /\ fnPc' = "listening"
    /\ page' = [page EXCEPT !.intercept = TRUE]
    /\ UNCHANGED <<scrapeVars, fnArg, fnOut>>
    /\ UNCHANGED <<rEvent, rpc, url, cookies, browser, session, closeCalls, element, box,
                   clip, shot, trace, rResponse>>

\* line 84 rejects: line 92 swallows it, no listener is registered and no
\* request is intercepted
InterceptionOff ==
    /\ fnPc = "setRequestInterception"
    /\ fnPc' = "off"
    /\ UNCHANGED <<scrapeVars, renderVars, fnArg, fnOut>>

\* the page issues a request and the listener is called with it
OnRequest ==
    /\ fnPc = "listening"
    /\ page.intercept
    /\ Len(fnOut) < MaxRequests
    /\ \E type \in Take(ResourceTypes, MaxResourceTypes) :
          fnOut' = Append(fnOut, Handled(type, onRequest(type)))
    /\ UNCHANGED <<scrapeVars, renderVars, fnPc, fnArg>>

InterceptNext == InterceptionOn \/ InterceptionOff \/ OnRequest

InterceptSpec == InterceptInit /\ [][InterceptNext]_vars

\* C25: with interception enabled, every intercepted request of type image,
\* font, media, stylesheet or other is aborted, every request of another type
\* is continued, and each request is resolved exactly once: aborted or
\* continued, never both and never neither.
C25_RequestsResolvedOnceByType ==
    fnPc = "listening" =>
        \A i \in 1..Len(fnOut) :
            /\ fnOut[i].abort + fnOut[i].continue = 1
            /\ fnOut[i].type \in {"image", "font", "media", "stylesheet", "other"}
                  => fnOut[i].abort = 1
            /\ fnOut[i].type \notin {"image", "font", "media", "stylesheet", "other"}
                  => fnOut[i].continue = 1

\* a document, a script and an image were requested in turn
C25_Witness ==
    /\ fnPc = "listening"
    /\ page.intercept
    /\ Len(fnOut) = 3
    /\ fnOut[1] = [type |-> "document", abort |-> 0, continue |-> 1]
    /\ fnOut[2] = [type |-> "script", abort |-> 0, continue |-> 1]
    /\ fnOut[3] = [type |-> "image", abort |-> 1, continue |-> 0]

-----------------------------------------------------------------------------
(* screenshot-post: the hosts normalizeFacebookUrl rewrites *)

\* the host is facebook.com or one of its subdomains
InFacebookDomain(hostname) ==
    \/ ToLowerCase(hostname) = "facebook.com"
    \/ EndsWith(ToLowerCase(hostname), ".facebook.com")

\* C26: normalizeFacebookUrl rewrites the host only for facebook.com and its
\* subdomains: a URL whose host merely ends with the characters
\* 'facebook.com' (notfacebook.com) is returned with its host unchanged.
C26_OnlyFacebookDomainRewritten ==
    /\ rpc \notin {"idle", "start"}
    /\ rEvent.httpMethod = "POST"
    /\ NewURL(RequestedUrl(rEvent)).ok
    /\ ~InFacebookDomain(NewURL(RequestedUrl(rEvent)).hostname)
    => /\ url = RequestedUrl(rEvent)
       /\ NewURL(url).hostname = NewURL(RequestedUrl(rEvent)).hostname

=============================================================================
